---- MODULE Spec2Model ----
(***************************************************************************)
(* Docet documentation ingestion: the chunker (DocumentProcessor), the     *)
(* structured-spec connector (SwaggerConnector), the connector registry    *)
(* and the ingestion orchestrator (IngestionService) with its storage      *)
(* sink (ChromaVectorService).                                             *)
(*                                                                         *)
(* Texts are sequences of one-character strings; offsets are Python's      *)
(* 0-based offsets, slices are Python's half-open, clamped slices.         *)
(***************************************************************************)
EXTENDS Integers, Sequences, FiniteSets, TLC

\* ------------------------------------------------------------------ bounds

\* Longest raw document text drawn for the chunker.
MaxLen == 5
\* Largest chunk_size drawn for the chunker (chunk_overlap ranges below it).
MaxChunkSize == 4

\* ----------------------------------------------------------------- helpers

Min(a, b) == IF a <= b THEN a ELSE b
Max(a, b) == IF a >= b THEN a ELSE b

\* Python's s[a:b] for 0 <= a and 0 <= b (the end is clamped to len(s)).
Slice(s, a, b) == SubSeq(s, a + 1, Min(b, Len(s)))

\* The characters a text is drawn from: a letter, a sentence end, a blank,
\* a line feed and a control character (\x01, written "^A").
Alphabet == {"a", ".", " ", "\n", "^A"}

\* Python's str.isspace() / the regex class \s.
IsSpace(c) == c \in {" ", "\n", "\t", "\r", "\f"}
\* The regex class [\x00-\x08\x0b\x0c\x0e-\x1f\x7f-\xff].
IsControl(c) == c \in {"^A", "\f"}
\* The regex class [.!?].
IsSentenceEnd(c) == c \in {".", "!", "?"}

RECURSIVE Texts(_)
Texts(n) == IF n = 0 THEN {<<>>}
            ELSE Texts(n - 1) \cup
                 {Append(t, c) : t \in {u \in Texts(n - 1) : Len(u) = n - 1}, c \in Alphabet}

\* ------------------------------------------- DocumentProcessor._clean_content

\* re.sub(r'\s+', ' ', content): every whitespace run becomes one blank.
RECURSIVE CollapseFrom(_, _)
CollapseFrom(s, i) ==
    IF i > Len(s) THEN <<>>
    ELSE IF IsSpace(s[i])
         THEN IF i > 1 /\ IsSpace(s[i - 1])
              THEN CollapseFrom(s, i + 1)
              ELSE <<" ">> \o CollapseFrom(s, i + 1)
         ELSE <<s[i]>> \o CollapseFrom(s, i + 1)

CollapseWhitespace(s) == CollapseFrom(s, 1)

\* re.sub(r'[\x00-\x08\x0b\x0c\x0e-\x1f\x7f-\xff]', '', content)
IsNotControl(c) == ~IsControl(c)
RemoveControl(s) == SelectSeq(s, IsNotControl)

\* content.replace('\r\n', '\n').replace('\r', '\n')
RECURSIVE NormalizeFrom(_, _)
NormalizeFrom(s, i) ==
    IF i > Len(s) THEN <<>>
    ELSE IF s[i] = "\r"
         THEN IF i < Len(s) /\ s[i + 1] = "\n"
              THEN NormalizeFrom(s, i + 1)
              ELSE <<"\n">> \o NormalizeFrom(s, i + 1)
         ELSE <<s[i]>> \o NormalizeFrom(s, i + 1)

NormalizeLineEndings(s) == NormalizeFrom(s, 1)

\* str.strip(): leading and trailing whitespace removed.
Strip(s) ==
    LET idx == {i \in 1..Len(s) : ~IsSpace(s[i])}
    IN IF idx = {} THEN <<>>
       ELSE SubSeq(s, CHOOSE i \in idx : \A j \in idx : i <= j,
                      CHOOSE i \in idx : \A j \in idx : i >= j)

CleanContent(content) ==
    Strip(NormalizeLineEndings(RemoveControl(CollapseWhitespace(content))))

\* ------------------------------------ DocumentProcessor._find_sentence_break

\* text[k] for a 0-based offset k.
At(text, k) == text[k + 1]

\* The offsets k of text[start:end] where the regex [.!?]\s+ matches.
SentenceMatches(text, start, end) ==
    {k \in start..(end - 2) : IsSentenceEnd(At(text, k)) /\ IsSpace(At(text, k + 1))}

\* The end of the greedy whitespace run that starts at offset k, inside [k, end).
SpaceRunEnd(text, k, end) ==
    CHOOSE m \in k..end :
        /\ \A j \in k..(m - 1) : IsSpace(At(text, j))
        /\ (m = end \/ ~IsSpace(At(text, m)))

\* The offsets j > k closing a match of \n\s*\n that opens at offset k.
ParagraphCloses(text, k, end) ==
    {j \in (k + 1)..(end - 1) :
        /\ At(text, j) = "\n"
        /\ \A i \in (k + 1)..(j - 1) : IsSpace(At(text, i))}

ParagraphMatches(text, start, end) ==
    {k \in start..(end - 2) : At(text, k) = "\n" /\ ParagraphCloses(text, k, end) # {}}

SetMin(S) == CHOOSE x \in S : \A y \in S : x <= y
SetMax(S) == CHOOSE x \in S : \A y \in S : x >= y

FindSentenceBreak(text, start, end) ==
    LET sm == SentenceMatches(text, start, end)
        pm == ParagraphMatches(text, start, end)
        ws == {i \in start..(end - 1) : IsSpace(At(text, i))}
    IN IF sm # {} THEN SpaceRunEnd(text, SetMin(sm) + 1, end)
       ELSE IF pm # {} THEN SetMax(ParagraphCloses(text, SetMin(pm), end)) + 1
       ELSE IF ws # {} THEN SetMax(ws)
       ELSE end

\* ------------------------------------------- DocumentProcessor._split_text

\* `start <= chunks` (processor.py line 90) compares an int with a list:
\* Python 3 raises TypeError before the right operand of `and` is looked at.
IntLeList(start, chunks) == "TypeError"

\* One pass through the body of `while start < len(text)`, entered with the
\* loop condition true.  ranges records the window [start, end) of every pass.
SplitIter(text, start, chunks, ranges, size, overlap) ==
    LET end0 == start + size
        sb == FindSentenceBreak(text, Max(start, end0 - overlap), end0)
        end == IF start > 0 /\ end0 < Len(text) /\ sb > start THEN sb ELSE end0
        chunk == Strip(Slice(text, start, end))
        chunks1 == IF chunk # <<>> THEN Append(chunks, chunk) ELSE chunks
        ranges1 == Append(ranges, <<start, Min(end, Len(text))>>)
        start1 == end - overlap
    IN IF end >= Len(text)
       THEN [pc |-> "return", start |-> start, chunks |-> chunks1, ranges |-> ranges1]
       ELSE IF IntLeList(start1, chunks1) = "TypeError"
       THEN [pc |-> "raise", start |-> start1, chunks |-> chunks1, ranges |-> ranges1]
       ELSE IF IntLeList(start1, chunks1) = "true" /\ Len(chunks1) > 0
       THEN [pc |-> "loop", start |-> end, chunks |-> chunks1, ranges |-> ranges1]
       ELSE [pc |-> "loop", start |-> start1, chunks |-> chunks1, ranges |-> ranges1]

\* The while loop run to its end: "return" with the chunk texts or "raise".
RECURSIVE SplitLoop(_, _, _, _, _, _)
\* After the pass that left r: the next test of the loop, or r's outcome.
SplitAfter(r, text, size, overlap) ==
    IF r.pc = "loop"
    THEN SplitLoop(text, r.start, r.chunks, r.ranges, size, overlap)
    ELSE r

SplitLoop(text, start, chunks, ranges, size, overlap) ==
    IF ~(start < Len(text))
    THEN [pc |-> "return", start |-> start, chunks |-> chunks, ranges |-> ranges]
    ELSE SplitAfter(SplitIter(text, start, chunks, ranges, size, overlap),
                    text, size, overlap)

SplitText(text, size, overlap) ==
    IF Len(text) <= size
    THEN [pc |-> "return", start |-> 0, chunks |-> <<text>>, ranges |-> <<<<0, Len(text)>>>>]
    ELSE SplitLoop(text, 0, <<>>, <<>>, size, overlap)

\* ----------------------------------------- DocumentProcessor.chunk_document

\* MakeChunk with the chunk counted from 1, as `enumerate(chunk_texts, 1)` would.
MakeChunk_OneBased(doc_id, content, i, chunk_text, size, overlap) ==
    LET start_char == (i + 1) * (size - overlap)
        end_char == start_char + Len(chunk_text)
    IN [id |-> doc_id \o "#chunk_" \o ToString(i + 1),
        document_id |-> doc_id,
        content |-> chunk_text,
        chunk_index |-> i + 1,
        start_char |-> Max(0, start_char),
        end_char |-> Min(Len(content), end_char)]

\* MakeChunk with end_char measured on the raw window, not clamped to the content.
MakeChunk_Unclamped(doc_id, content, i, chunk_text, size, overlap) ==
    LET start_char == i * (size - overlap)
        end_char == start_char + size
    IN [id |-> doc_id \o "#chunk_" \o ToString(i),
        document_id |-> doc_id,
        content |-> chunk_text,
        chunk_index |-> i,
        start_char |-> Max(0, start_char),
        end_char |-> end_char]

\* The DocumentChunk built for the i-th (0-based) chunk text of a document.
MakeChunk(doc_id, content, i, chunk_text, size, overlap) ==
    LET start_char == i * (size - overlap)
        end_char == start_char + Len(chunk_text)
    IN [id |-> doc_id \o "#chunk_" \o ToString(i),
        document_id |-> doc_id,
        content |-> chunk_text,
        chunk_index |-> i,
        start_char |-> Max(0, start_char),
        end_char |-> Min(Len(content), end_char)]

BuildChunkList(doc_id, content, chunk_texts, size, overlap) ==
    [k \in 1..Len(chunk_texts) |->
        MakeChunk(doc_id, content, k - 1, chunk_texts[k], size, overlap)]

\* chunk_document as a whole: the chunks, or the exception _split_text raised.
\* r is what _split_text did on the cleaned content.
ChunksOfSplit(doc_id, content, r, size, overlap) ==
    IF r.pc = "raise"
    THEN [raised |-> TRUE, chunks |-> <<>>]
    ELSE [raised |-> FALSE,
          chunks |-> BuildChunkList(doc_id, content, r.chunks, size, overlap)]

ChunkCleaned(doc_id, content, size, overlap) ==
    ChunksOfSplit(doc_id, content, SplitText(content, size, overlap), size, overlap)

ChunkDocumentResult(doc_id, raw, size, overlap) ==
    ChunkCleaned(doc_id, CleanContent(raw), size, overlap)

\* ------------------------------------------------ SwaggerConnector: versions

\* Longest flattened list of selector options on a page.
MaxOptions == 3
\* Most spec-file URLs found in the inline scripts of a page.
MaxScriptUrls == 2

RECURSIVE SeqsUpTo(_, _)
SeqsUpTo(S, n) == IF n = 0 THEN {<<>>}
                  ELSE SeqsUpTo(S, n - 1) \cup
                       {Append(q, x) : q \in {u \in SeqsUpTo(S, n - 1) : Len(u) = n - 1}, x \in S}

\* The connector's self.url, and scheme://netloc of it.
SourceUrl == "https://api.example.com/docs/"
BaseUrl == "https://api.example.com"

\* The dataclass VersionInfo; source is metadata['source'] ("" when the
\* metadata carries no source key or is None).
VersionInfo(version, url, is_default, source) ==
    [version |-> version, url |-> url, is_default |-> is_default, source |-> source]

\* Texts of the option/a/button elements found under a version selector.
OptionTexts == {"v1.0", "v2.0", "Docs"}
\* href or value of such an element ("" when it has neither).
OptionHrefs == {"", "v1/swagger.json"}
\* re.match(r'v?\d+\.\d+(\.\d+)?', text) on the texts above.
MatchesVersionText(text) == text \in {"v1.0", "v2.0"}

\* The URLs the script regex finds in inline scripts.
ScriptUrls == {"v1/swagger.json", "api/v1/openapi.json", "swagger.json"}

\* _resolve_spec_url: absolute URLs are kept, the others joined to self.url
\* (self.url ends with "/", the relative URLs above have no leading "/").
IsAbsoluteUrl(url) == url \in {SourceUrl, BaseUrl}
ResolveSpecUrl(url) == IF IsAbsoluteUrl(url) THEN url ELSE SourceUrl \o url

\* re.search(r'v(\d+(?:\.\d+)*)', spec_url): group(1), else 'latest'.
VersionInUrl(spec_url) ==
    IF spec_url \in {SourceUrl \o "v1/swagger.json", SourceUrl \o "api/v1/openapi.json"}
    THEN "1" ELSE "latest"

\* The version-selector scan (lines 66-80), over the options in the order the
\* nested loops visit them.  A label is appended whether or not it is there.
RECURSIVE ScanSelectors(_, _, _)
ScanSelectors(options, i, versions) ==
    IF i > Len(options) THEN versions
    ELSE LET o == options[i]
             spec_url == IF o.href # "" THEN ResolveSpecUrl(o.href) ELSE SourceUrl
         IN ScanSelectors(options, i + 1,
                IF MatchesVersionText(o.text)
                THEN Append(versions, VersionInfo(o.text, spec_url, Len(versions) = 0,
                                                  "version_selector"))
                ELSE versions)

HasVersion(versions, version) == \E k \in 1..Len(versions) : versions[k].version = version

\* The inline-script scan (lines 82-101): a label already in versions is skipped.
RECURSIVE ScanScripts(_, _, _)
ScanScripts(urls, i, versions) ==
    IF i > Len(urls) THEN versions
    ELSE LET spec_url == ResolveSpecUrl(urls[i])
             version == VersionInUrl(spec_url)
         IN ScanScripts(urls, i + 1,
                IF ~HasVersion(versions, version)
                THEN Append(versions, VersionInfo(version, spec_url, Len(versions) = 0,
                                                  "javascript_config"))
                ELSE versions)

common_paths == <<"/swagger.json", "/openapi.json", "/api-docs",
                  "/v1/swagger.json", "/v2/swagger.json", "/v3/swagger.json">>

\* re.search(r'v(\d+)', path): group(1), else 'latest'.
VersionInPath(path) ==
    CASE path = "/v1/swagger.json" -> "1"
      [] path = "/v2/swagger.json" -> "2"
      [] path = "/v3/swagger.json" -> "3"
      [] OTHER -> "latest"

\* What a GET of a probed URL can give: no response (the request raises), or
\* a status with a body that is not JSON, or JSON with or without one of the
\* keys openapi / swagger / paths.
ProbeBodies == {"not_json", "json_no_key", "json_openapi", "json_swagger", "json_paths"}
ProbeResponses ==
    {[raises |-> TRUE, status |-> 0, body |-> "not_json"]} \cup
    [raises : {FALSE}, status : {200, 404}, body : ProbeBodies]

\* _test_spec_url (lines 137-146).
TestSpecUrl(resp) ==
    /\ ~resp.raises
    /\ resp.status = 200
    /\ resp.body \in {"json_openapi", "json_swagger", "json_paths"}

\* The pass marking every version it finds as the default.
ProbeStep_AllDefault(versions, i, resp) ==
    IF TestSpecUrl(resp)
    THEN Append(versions, VersionInfo(VersionInPath(common_paths[i]),
                                      BaseUrl \o common_paths[i],
                                      TRUE, "common_paths"))
    ELSE versions

\* One pass of `for path in common_paths` (lines 114-125), given the response
\* to the GET of that path.
ProbeStep(versions, i, resp) ==
    IF TestSpecUrl(resp)
    THEN Append(versions, VersionInfo(VersionInPath(common_paths[i]),
                                      BaseUrl \o common_paths[i],
                                      Len(versions) = 0, "common_paths"))
    ELSE versions

\* Lines 127-135: the fallback version when nothing was found.
WithFallback(versions) ==
    IF versions = <<>>
    THEN <<VersionInfo("latest", SourceUrl, TRUE, "fallback")>>
    ELSE versions

\* The bodies a response declared application/json can carry: not JSON, JSON
\* that is no object, an object without info.version, or with that version.
JsonBodies == {"not_json", "not_object", "no_version", "1.0.0", "2.0.0"}

\* _detect_versions_from_spec (lines 43-61); raised stands for the
\* AttributeError of spec.get on a value that is no dict.
DetectVersionsFromSpec(body) ==
    CASE body = "not_json" -> [raised |-> FALSE, versions |-> <<>>]
      [] body = "not_object" -> [raised |-> TRUE, versions |-> <<>>]
      [] body = "no_version" ->
            [raised |-> FALSE, versions |-> <<VersionInfo("1.0.0", SourceUrl, TRUE, "")>>]
      [] OTHER ->
            [raised |-> FALSE, versions |-> <<VersionInfo(body, SourceUrl, TRUE, "")>>]

\* The responses to the GET of self.url in detect_versions.
HtmlPages ==
    [kind : {"html"}, json : {"not_json"},
     options : SeqsUpTo([text : OptionTexts, href : OptionHrefs], MaxOptions),
     scripts : SeqsUpTo(ScriptUrls, MaxScriptUrls)]
JsonPages == [kind : {"json"}, json : JsonBodies, options : {<<>>}, scripts : {<<>>}]
ErrorPage == [kind |-> "error", json |-> "not_json", options |-> <<>>, scripts |-> <<>>]
PageResponses == HtmlPages \cup JsonPages \cup {ErrorPage}

\* The `except Exception` of detect_versions (lines 39-41).
ExceptVersions == <<VersionInfo("latest", SourceUrl, TRUE, "")>>

\* detect_versions up to the first probe: done with the versions it returns,
\* or not done with nothing found by the two scans.
DetectVersionsBeforeProbe(page) ==
    IF page.kind = "error" THEN [done |-> TRUE, versions |-> ExceptVersions]
    ELSE IF page.kind = "json"
    THEN LET r == DetectVersionsFromSpec(page.json)
         IN [done |-> TRUE, versions |-> IF r.raised THEN ExceptVersions ELSE r.versions]
    ELSE LET versions == ScanScripts(page.scripts, 1, ScanSelectors(page.options, 1, <<>>))
         IN [done |-> versions # <<>>, versions |-> versions]

\* The probe loop run over the responses probes[1..6], then the fallback.
RECURSIVE ProbeAll(_, _, _)
ProbeAll(versions, i, probes) ==
    IF i > Len(common_paths) THEN WithFallback(versions)
    ELSE ProbeAll(ProbeStep(versions, i, probes[i]), i + 1, probes)

\* detect_versions as a whole, given the page and the probes' responses.
DetectVersions(page, probes) ==
    LET r == DetectVersionsBeforeProbe(page)
    IN IF r.done THEN r.versions ELSE ProbeAll(r.versions, 1, probes)

\* ---------------------------------------------- SwaggerConnector: documents

\* models.DocumentType: the values Document.doc_type accepts.
DocumentType == {"openapi_info", "openapi_endpoint", "swagger_html",
                 "markdown", "html", "pdf", "docx"}

\* Keys of a path item, paths, and schema names of the specifications drawn.
MethodKeys == {"get", "post", "trace"}
PathNames == {"/users", "/pets"}
SchemaNames == {"User", "Pet"}
\* The order in which the dicts of a specification are iterated.
PathOrder == <<"/users", "/pets">>
MethodOrder == <<"get", "post", "trace">>
SchemaOrder == <<"User", "Pet">>

\* str.upper() on the keys above.
Upper(method) ==
    CASE method = "get" -> "GET"
      [] method = "post" -> "POST"
      [] method = "trace" -> "TRACE"
      [] OTHER -> method

\* The list of line 218.
HttpMethods == {"GET", "POST", "PUT", "DELETE", "PATCH", "OPTIONS", "HEAD"}

\* A parsed specification: whether 'servers' and components.securitySchemes
\* are non-empty, the method keys under each path, the names under
\* components.schemas, and text, the content its documents are rendered to.
SpecBodies(texts) ==
    [servers : BOOLEAN, security : BOOLEAN,
     paths : [PathNames -> SUBSET MethodKeys],
     schemas : SUBSET SchemaNames,
     text : texts]

\* The fields of models.Document the model follows (method, path and
\* schema_name are metadata; "" where the metadata has no such key).
\* valid: pydantic accepts doc_type; otherwise Document(...) raises
\* ValidationError.
Document(id, doc_type, url, version, method, path, schema_name, content) ==
    [id |-> id, doc_type |-> doc_type, url |-> url, version |-> version,
     method |-> method, path |-> path, schema_name |-> schema_name,
     content |-> content, valid |-> doc_type \in DocumentType]

DocId(version, locator) == SourceUrl \o "#" \o version \o "#" \o locator

\* All (path, method key) pairs in iteration order.
AllEndpoints ==
    <<<<PathOrder[1], MethodOrder[1]>>, <<PathOrder[1], MethodOrder[2]>>,
      <<PathOrder[1], MethodOrder[3]>>, <<PathOrder[2], MethodOrder[1]>>,
      <<PathOrder[2], MethodOrder[2]>>, <<PathOrder[2], MethodOrder[3]>>>>

\* The Document(...) calls of _extract_from_openapi_spec (lines 169-254), in
\* order, before pydantic validates them.
OpenapiDocuments(spec, version_info) ==
    LET version == version_info.version
        url == version_info.url
        IsOperation(pm) == pm[2] \in spec.paths[pm[1]] /\ Upper(pm[2]) \in HttpMethods
        endpoints == SelectSeq(AllEndpoints, IsOperation)
        IsSchema(n) == n \in spec.schemas
        schemas == SelectSeq(SchemaOrder, IsSchema)
    IN <<Document(DocId(version, "info"), "openapi_info", url, version, "", "", "",
                  spec.text)>>
       \o (IF spec.servers
           THEN <<Document(DocId(version, "servers"), "openapi_servers", url, version,
                           "", "", "", spec.text)>>
           ELSE <<>>)
       \o (IF spec.security
           THEN <<Document(DocId(version, "security"), "openapi_security", url, version,
                           "", "", "", spec.text)>>
           ELSE <<>>)
       \o [k \in 1..Len(endpoints) |->
              Document(DocId(version, Upper(endpoints[k][2]) \o "_" \o endpoints[k][1]),
                       "openapi_endpoint", url, version,
                       Upper(endpoints[k][2]), endpoints[k][1], "", spec.text)]
       \o [k \in 1..Len(schemas) |->
              Document(DocId(version, "schema_" \o schemas[k]), "openapi_schema", url,
                       version, "", "", schemas[k], spec.text)]

\* _extract_from_openapi_spec: the documents, or the ValidationError of the
\* first Document(...) whose doc_type is no DocumentType.
ExtractFromOpenapiSpec(spec, version_info) ==
    LET docs == OpenapiDocuments(spec, version_info)
    IN IF \E k \in 1..Len(docs) : ~docs[k].valid
       THEN [raised |-> TRUE, documents |-> <<>>]
       ELSE [raised |-> FALSE, documents |-> docs]

\* _extract_from_html (lines 256-282): one document of the visible text.
ExtractFromHtml(text, version_info) ==
    <<Document(DocId(version_info.version, "html"), "swagger_html", version_info.url,
               version_info.version, "", "", "", text)>>

\* What the GET of version_info.url can give: no usable response (the request
\* or raise_for_status raises), a JSON object (a specification), JSON that is
\* no object, or a body that is not JSON (taken as HTML).
NoSpec == [servers |-> FALSE, security |-> FALSE,
           paths |-> [p \in PathNames |-> {}], schemas |-> {}, text |-> <<>>]
ExtractResponses(texts) ==
    {[kind |-> "error", spec |-> NoSpec]}
    \cup {[kind |-> "json_not_object", spec |-> NoSpec]}
    \cup [kind : {"html"}, spec : {[NoSpec EXCEPT !.text = t] : t \in texts}]
    \cup [kind : {"json"}, spec : SpecBodies(texts)]

\* extract_documents_for_version (lines 153-167): every exception, the one of
\* the fetch as the one of _extract_from_openapi_spec, ends in `return []`.
ExtractDocumentsForVersion(resp, version_info) ==
    CASE resp.kind = "error" -> <<>>
      [] resp.kind = "json_not_object" -> <<>>
      [] resp.kind = "html" -> ExtractFromHtml(resp.spec.text, version_info)
      [] OTHER ->
            LET r == ExtractFromOpenapiSpec(resp.spec, version_info)
            IN IF r.raised THEN <<>> ELSE r.documents

\* --------------------------------------------------------- ConnectorRegistry

\* A registry: the names in _connectors and the map _type_mappings.  A
\* connector class is named by the name it is registered under.
NoConnector == "none"

RegisterConnector(reg, name, supported_types) ==
    [connectors |-> reg.connectors \cup {name},
     type_mappings |-> [t \in (DOMAIN reg.type_mappings) \cup supported_types |->
                           IF t \in supported_types THEN name ELSE reg.type_mappings[t]]]

EmptyRegistry == [connectors |-> {}, type_mappings |-> [t \in {} |-> ""]]

\* connectors/__init__.py: setup_default_connectors.
DefaultRegistry ==
    RegisterConnector(EmptyRegistry, "swagger", {"swagger_ui", "openapi_spec", "redoc"})

fallback_mappings ==
    [t \in {"swagger_ui", "openapi_spec", "redoc", "postman_docs", "postman_collection",
            "github_wiki", "gitbook", "notion", "confluence", "generic_docs",
            "generic_html"} |->
        CASE t \in {"swagger_ui", "openapi_spec", "redoc"} -> "swagger"
          [] t \in {"postman_docs", "postman_collection"} -> "postman"
          [] t = "github_wiki" -> "github"
          [] t = "gitbook" -> "markdown"
          [] OTHER -> "generic"]

\* get_connector_by_name falling back on the 'swagger' connector.
GetConnectorByName_Default(reg, name) ==
    IF name \in reg.connectors THEN name ELSE "swagger"

GetConnectorByName(reg, name) ==
    IF name \in reg.connectors THEN name ELSE NoConnector

\* register (lines 16-32): the types are those the class's
\* get_supported_types returns.
Register(reg, name, class_types) == RegisterConnector(reg, name, class_types)

\* SwaggerConnector.get_supported_types.
SwaggerSupportedTypes == {"swagger_ui", "openapi_spec", "redoc"}

\* get_connector_for_type without the fallback table.
GetConnectorForType_NoFallback(reg, doc_type) ==
    IF doc_type \in DOMAIN reg.type_mappings /\ reg.type_mappings[doc_type] # ""
    THEN GetConnectorByName(reg, reg.type_mappings[doc_type])
    ELSE NoConnector

GetConnectorForType(reg, doc_type) ==
    IF doc_type \in DOMAIN reg.type_mappings /\ reg.type_mappings[doc_type] # ""
    THEN GetConnectorByName(reg, reg.type_mappings[doc_type])
    ELSE IF doc_type \in DOMAIN fallback_mappings
    THEN GetConnectorByName(reg, fallback_mappings[doc_type])
    ELSE NoConnector

\* ------------------------------------------------------ ChromaVectorService

\* A chatbot's collection: how many entries it holds under each id.
EmptyCollection == [id \in {} |-> 0]

RECURSIVE Flatten(_)
Flatten(lists) == IF lists = <<>> THEN <<>> ELSE Head(lists) \o Flatten(Tail(lists))

HasDuplicateIds(chunks) ==
    \E j, k \in 1..Len(chunks) : j # k /\ chunks[j].id = chunks[k].id

\* collection.add with every entry inserted, whether or not its id is there.
CollectionAdd_Blind(collection, chunks) ==
    LET ids == {chunks[k].id : k \in 1..Len(chunks)}
    IN [id \in (DOMAIN collection) \cup ids |->
           (IF id \in DOMAIN collection THEN collection[id] ELSE 0)
           + Cardinality({k \in 1..Len(chunks) : chunks[k].id = id})]

\* collection.add (line 103) of a batch without duplicate ids: an id already
\* in the collection is left as it is, the others are inserted.
CollectionAdd(collection, chunks) ==
    LET ids == {chunks[k].id : k \in 1..Len(chunks)}
    IN [id \in (DOMAIN collection) \cup ids |->
           IF id \in DOMAIN collection THEN collection[id] ELSE 1]

\* add_documents (lines 75-115).  env is what the collection and the
\* embedding model do: "ok", "false" (an exception inside the try, logged)
\* or "raise" (get_chatbot_collection raises, outside the try).  A batch with
\* a repeated id is refused by collection.add.
AddDocuments(collection, chunks, env) ==
    IF chunks = <<>> THEN [ret |-> "true", collection |-> collection]
    ELSE IF env = "raise" THEN [ret |-> "raise", collection |-> collection]
    ELSE IF env = "false" \/ HasDuplicateIds(chunks)
    THEN [ret |-> "false", collection |-> collection]
    ELSE [ret |-> "true", collection |-> CollectionAdd(collection, chunks)]

\* get_document_by_id (lines 189-206): the entry stored under that very id.
GetDocumentById(collection, document_id) == document_id \in DOMAIN collection

\* ---------------------------------------------------------- IngestionService

\* DocumentProcessor() in _store_documents takes the defaults chunk_size=1000
\* and chunk_overlap=200 (processor.py line 9).  The model scales both down,
\* keeping 0 < chunk_overlap < chunk_size, so that texts longer than
\* chunk_size stay short.
ScaledChunkSize == 4
ScaledChunkOverlap == 1

\* Most calls of ingest_documentation in a behaviour.
MaxRuns == 2

ShortText == <<"a", " ", "b">>
LongText == [i \in 1..(ScaledChunkSize + 2) |-> "a"]
IngestTexts == {ShortText, LongText}

\* The responses drawn for the GET of a version's URL during ingestion.
IngestResponses ==
    {r \in ExtractResponses(IngestTexts) :
        r.kind = "json" =>
            /\ r.spec.paths["/users"] = {"get"}
            /\ r.spec.paths["/pets"] = {}
            /\ r.spec.schemas = {}
            /\ ~r.spec.security
            /\ ~r.spec.servers
            /\ r.spec.text = ShortText}

\* The pages drawn for the GET of self.url during ingestion.
IngestPages ==
    {ErrorPage}
    \cup [kind : {"json"}, json : {"not_json", "1.0.0"}, options : {<<>>}, scripts : {<<>>}]
    \cup [kind : {"html"}, json : {"not_json"},
          options : SeqsUpTo([text : {"v1.0", "v2.0"}, href : {""}], 2),
          scripts : {<<>>}]

ProbeOk == [raises |-> FALSE, status |-> 200, body |-> "json_openapi"]
ProbeNotFound == [raises |-> FALSE, status |-> 404, body |-> "not_json"]
\* The probes' responses drawn during ingestion: no path answers, the first
\* does, the first two do.
IngestProbes ==
    {[i \in 1..6 |-> ProbeNotFound],
     [i \in 1..6 |-> IF i = 1 THEN ProbeOk ELSE ProbeNotFound],
     [i \in 1..6 |-> IF i <= 2 THEN ProbeOk ELSE ProbeNotFound]}

\* The version lists detect_versions returns during ingestion.
IngestVersionLists == {DetectVersions(page, probes) : page \in IngestPages, probes \in IngestProbes}

\* What the detector reports for the URL (detector.py), as far as ingestion
\* reads it.
DetectedTypes == {"openapi_spec", "generic_html"}

\* Python's None, and the truth value `if x:` takes of an Optional[str].
None == "<None>"
Truthy(x) == x \notin {None, ""}

\* Arguments of ingest_documentation.
ConnectorTypes == {None, "", "custom", "bogus"}
VersionFilters == {None, "", "v1.0", "v9"}

\* The registry of the running service: the default connector, and a
\* connector class of the deployment registered as 'custom' whose
\* detect_versions and extract_documents_for_version may raise.
ServiceRegistry == RegisterConnector(DefaultRegistry, "custom", {})

Labels(versions) == [k \in 1..Len(versions) |-> versions[k].version]

\* The filter with all versions kept when none has the label asked for.
FilterVersions_AllWhenNone(versions, version) ==
    IF \E k \in 1..Len(versions) : versions[k].version = version
    THEN SelectSeq(versions, LAMBDA vi : vi.version = version)
    ELSE versions

\* Line 135: the versions whose label is the one asked for.
FilterVersions(versions, version) ==
    SelectSeq(versions, LAMBDA vi : vi.version = version)

NoError == [kind |-> "none", name |-> "", available |-> <<>>]
ErrorOf(kind, name, available) == [kind |-> kind, name |-> name, available |-> available]

NoStats == [total_documents |-> 0, total_chunks |-> 0, stored_count |-> 0,
            chunks_stored |-> 0, skipped_count |-> 0, error_count |-> 0,
            force_reingestion |-> FALSE]

\* The dict ingest_documentation returns.  has_version_stats tells whether
\* the key version_stats is there; total_documents is -1 when the key is not.
NoResult == [status |-> "none", error |-> NoError, has_version_stats |-> FALSE,
             version_stats |-> [l \in {} |-> 0],
             total_documents |-> -1, ingestion_stats |-> NoStats]

Failed(error) == [NoResult EXCEPT !.status = "failed", !.error = error]

\* The result for no documents, built like the other failures.
NoDocumentsResult_NoStats(stats) == Failed(ErrorOf("no_documents", "", <<>>))

\* Lines 176-183: the result when no version gave a document.
NoDocumentsResult(stats) ==
    [Failed(ErrorOf("no_documents", "", <<>>))
        EXCEPT !.has_version_stats = TRUE, !.version_stats = stats]

\* Lines 155-160: the version tags put on the documents of a version when
\* the source has more than one version.
TagDocuments(documents, version_info, n_versions) ==
    [k \in 1..Len(documents) |->
        [id |-> documents[k].id, doc_type |-> documents[k].doc_type,
         url |-> documents[k].url, version |-> documents[k].version,
         method |-> documents[k].method, path |-> documents[k].path,
         schema_name |-> documents[k].schema_name, content |-> documents[k].content,
         valid |-> documents[k].valid,
         version_url |-> IF n_versions > 1 THEN version_info.url ELSE "",
         is_default_version |-> IF n_versions > 1 THEN version_info.is_default ELSE FALSE]]

\* process_documents (processor.py lines 13-20) with the default processor.
\* rs[k] is what chunk_document did on the k-th document.
ExtendAll(rs) ==
    IF \E k \in 1..Len(rs) : rs[k].raised
    THEN [raised |-> TRUE, chunks |-> <<>>]
    ELSE [raised |-> FALSE, chunks |-> Flatten([k \in 1..Len(rs) |-> rs[k].chunks])]

ProcessDocuments(documents) ==
    ExtendAll([k \in 1..Len(documents) |->
                  ChunkDocumentResult(documents[k].id, documents[k].content,
                                      ScaledChunkSize, ScaledChunkOverlap)])

\* _store_documents (lines 218-276): the collection it leaves, the mutating
\* calls it made on the sink, and the statistics it returns or the exception
\* of process_documents.
\* StoreChunks with stored_count left as counted when add_documents fails.
StoreChunks_KeepCounts(cleared, ops0, all_chunks, a, documents, force_reingestion) ==
    [raised |-> FALSE, collection |-> a.collection,
     ops |-> Append(ops0, "add"), add_ret |-> a.ret,
     stats |-> [total_documents |-> Len(documents),
                total_chunks |-> Len(all_chunks),
                stored_count |-> Len(documents),
                chunks_stored |-> IF a.ret = "true" THEN Len(all_chunks) ELSE 0,
                skipped_count |-> 0,
                error_count |-> IF a.ret = "true" THEN 0 ELSE Len(documents),
                force_reingestion |-> force_reingestion]]

\* Lines 234-276, after process_documents returned all_chunks: the loop that
\* counts, add_documents (a is what it did) and the statistics.
StoreChunks(cleared, ops0, all_chunks, a, documents, force_reingestion) ==
    LET skipped == IF force_reingestion THEN {}
                   ELSE {k \in 1..Len(documents) : GetDocumentById(cleared, documents[k].id)}
        skipped_count == Cardinality(skipped)
        stored_count == Len(documents) - skipped_count
        ok == a.ret = "true"
    IN [raised |-> FALSE, collection |-> a.collection,
        ops |-> Append(ops0, "add"), add_ret |-> a.ret,
        stats |-> [total_documents |-> Len(documents),
                   total_chunks |-> Len(all_chunks),
                   stored_count |-> IF ok THEN stored_count ELSE 0,
                   chunks_stored |-> IF ok THEN Len(all_chunks) ELSE 0,
                   skipped_count |-> skipped_count,
                   error_count |-> IF ok THEN 0 ELSE Len(documents),
                   force_reingestion |-> force_reingestion]]

\* Lines 226-232 done (cleared is the collection after the optional
\* clear_chatbot_data, p what process_documents did): the exception goes up,
\* or the chunks go to the vector service.
StoreProcessed(cleared, ops0, p, documents, force_reingestion, env) ==
    IF p.raised
    THEN [raised |-> TRUE, collection |-> cleared, ops |-> ops0, add_ret |-> "none",
          stats |-> NoStats]
    ELSE StoreChunks(cleared, ops0, p.chunks, AddDocuments(cleared, p.chunks, env),
                     documents, force_reingestion)

\* _store_documents without the call of clear_chatbot_data.
StoreDocuments_NoClear(collection, documents, force_reingestion, env) ==
    StoreProcessed(collection, <<>>, ProcessDocuments(documents), documents,
                   force_reingestion, env)

StoreDocuments(collection, documents, force_reingestion, env) ==
    StoreProcessed(IF force_reingestion THEN EmptyCollection ELSE collection,
                   IF force_reingestion THEN <<"clear">> ELSE <<>>,
                   ProcessDocuments(documents), documents, force_reingestion, env)

\* ------------------------------------------------------ DocumentTypeDetector

\* A confidence is a Python float. It is kept here as its value in
\* thousandths, one above or below the exact thousandth when the float is
\* just above or below it (0.6000000000000001 is 601, 0.7999999999999999 is
\* 799), so that the comparisons of the code compare as the floats do.
\* confidence += step in IEEE double arithmetic, for the sums the detectors
\* form (every other sum they form is exact).
FloatAdd(a, b) ==
    CASE <<a, b>> = <<200, 100>> -> 301
      [] <<a, b>> = <<301, 100>> -> 400
      [] <<a, b>> = <<400, 200>> -> 601
      [] <<a, b>> = <<601, 200>> -> 800
      [] <<a, b>> = <<600, 300>> -> 899
      [] <<a, b>> = <<700, 100>> -> 799
      [] OTHER -> a + b

\* hits times: confidence += step.
RECURSIVE AddHits(_, _, _)
AddHits(confidence, step, hits) ==
    IF hits = 0 THEN confidence
    ELSE AddHits(FloatAdd(confidence, step), step, hits - 1)

HighConfidence == 700
JsonConfidence == 950
PostmanCollectionConfidence == 900
GenericHtmlConfidence == 100
GenericDocsCap == 500
FullConfidence == 1000

\* The URLs detection is asked about.
DetectUrls ==
    {"https://example.com/", SourceUrl, "https://github.com/acme/tool/wiki",
     "https://acme.notion.site/handbook"}

\* needle in url, for the needles the detectors look for.
UrlContains ==
    "https://example.com/" :> {} @@
    "https://api.example.com/docs/" :> {"docs", "api"} @@
    "https://github.com/acme/tool/wiki" :> {"github.com", "/wiki", "wiki"} @@
    "https://acme.notion.site/handbook" :> {"notion.site", "notion"}

\* The pieces of text a page is made of (a page's content is some of them,
\* separated by markup that holds none of the needles).
ContentAtoms ==
    {"swagger-ui", "swagger.json", "api-docs", "redoc-container", "ReDoc",
     "documenter.getpostman.com", "octicon", "GitBook", "Notion", "atlassian",
     "\"openapi\""}

\* needle in atom.
AtomContains ==
    "swagger-ui" :> {"swagger-ui"} @@
    "swagger.json" :> {"swagger.json"} @@
    "api-docs" :> {"api-docs", "docs", "api"} @@
    "redoc-container" :> {"redoc", "redoc-container"} @@
    "ReDoc" :> {"ReDoc"} @@
    "documenter.getpostman.com" :> {"postman", "documenter.getpostman.com"} @@
    "octicon" :> {"octicon"} @@
    "GitBook" :> {"GitBook"} @@
    "Notion" :> {"Notion"} @@
    "atlassian" :> {"atlassian"} @@
    "\"openapi\"" :> {"api"}

\* needle in atom.lower().
AtomLowerContains ==
    "swagger-ui" :> {"swagger-ui"} @@
    "swagger.json" :> {"swagger.json"} @@
    "api-docs" :> {"api-docs", "docs", "api"} @@
    "redoc-container" :> {"redoc", "redoc-container"} @@
    "ReDoc" :> {"redoc"} @@
    "documenter.getpostman.com" :> {"postman", "documenter.getpostman.com"} @@
    "octicon" :> {"octicon"} @@
    "GitBook" :> {"gitbook"} @@
    "Notion" :> {"notion"} @@
    "atlassian" :> {"atlassian"} @@
    "\"openapi\"" :> {"api"}

\* indicator in content / indicator in content.lower().
InContent(content, indicator) == \E a \in content : indicator \in AtomContains[a]
InLowerContent(content, indicator) == \E a \in content : indicator \in AtomLowerContains[a]
\* indicator in url / indicator in url.lower() (the URLs above are lowercase).
InUrl(url, indicator) == indicator \in UrlContains[url]

Hits(indicators, Test(_)) == Cardinality({i \in indicators : Test(i)})

\* What BeautifulSoup finds in a page: the title text (None without a title
\* element), the texts of the options under version/spec selectors, the
\* texts of the links under nav/menu/sidebar elements, and the spec URLs the
\* script regex of _detect_swagger_ui finds.
Soup(title, selector_texts, nav_texts, spec_urls) ==
    [title |-> title, selector_texts |-> selector_texts, nav_texts |-> nav_texts,
     spec_urls |-> spec_urls]

BareSoup == Soup(None, {}, {}, {})

Soups ==
    {BareSoup,
     Soup("Docs", {}, {}, {}),
     Soup("Pet API", {"v1.0", "Docs"}, {}, {"swagger.json"}),
     Soup("Guide", {}, {"home", "release notes"}, {})}

\* re.search(r'v\d+\.\d+|version|release', text) on the lowercased link texts.
MatchesNavText(text) == text \in {"release notes"}

EmptyMetadata == [k \in {} |-> ""]

Detection(type, versions, metadata, confidence) ==
    [type |-> type, versions |-> versions, metadata |-> metadata,
     confidence |-> confidence]

UnknownResult(metadata) == Detection("unknown", {}, metadata, 0)

\* soup.title.string if soup.title else default.
TitleOr(soup, default) == IF soup.title # None THEN soup.title ELSE default

DetectSwaggerUi(url, soup, content) ==
    LET hits == Hits({"swagger-ui", "swagger-container", "swagger.json", "api-docs",
                      "SwaggerUIBundle"}, LAMBDA i : InLowerContent(content, i))
        versions == {t \in soup.selector_texts : MatchesVersionText(t)}
        spec == soup.spec_urls # {}
    IN  Detection("swagger_ui",
                  IF versions # {} THEN versions ELSE {"latest"},
                  [k \in (IF spec THEN {"spec_urls"} ELSE {}) \cup
                         (IF soup.title # None THEN {"title"} ELSE {}) |->
                      IF k = "title" THEN soup.title ELSE "spec_urls"],
                  Min(IF spec THEN FloatAdd(AddHits(0, 200, hits), 300)
                              ELSE AddHits(0, 200, hits),
                      FullConfidence))

DetectRedoc(url, soup, content) ==
    Detection("redoc", {"latest"},
              [title |-> TitleOr(soup, "ReDoc API Documentation")],
              AddHits(0, 300, Hits({"redoc", "ReDoc", "redoc-container"},
                                   LAMBDA i : InContent(content, i))))

DetectPostman(url, soup, content) ==
    Detection("postman_docs", {"latest"},
              [title |-> TitleOr(soup, "Postman Documentation")],
              AddHits(IF InUrl(url, "postman") THEN 400 ELSE 0, 200,
                      Hits({"postman", "documenter.getpostman.com", "postman-collection"},
                           LAMBDA i : InLowerContent(content, i))))

DetectGithubWiki(url, soup, content) ==
    Detection("github_wiki", {"latest"},
              [title |-> TitleOr(soup, "GitHub Wiki")],
              Min(AddHits(IF InUrl(url, "github.com") /\ InUrl(url, "/wiki")
                          THEN 800 ELSE 0, 100,
                          Hits({"github.com", "wiki", "octicon"},
                               LAMBDA i : InLowerContent(content, i))),
                  FullConfidence))

DetectGitbook(url, soup, content) ==
    Detection("gitbook", {"latest"},
              [title |-> TitleOr(soup, "GitBook Documentation")],
              AddHits(0, 300, Hits({"gitbook", "GitBook", "gitbook.io"},
                                   LAMBDA i : InContent(content, i))))

DetectNotion(url, soup, content) ==
    Detection("notion", {"latest"},
              [title |-> TitleOr(soup, "Notion Documentation")],
              AddHits(IF InUrl(url, "notion.so") \/ InUrl(url, "notion.site")
                      THEN 700 ELSE 0, 100,
                      Hits({"notion", "Notion"}, LAMBDA i : InContent(content, i))))

DetectConfluence(url, soup, content) ==
    Detection("confluence", {"latest"},
              [title |-> TitleOr(soup, "Confluence Documentation")],
              AddHits(0, 200, Hits({"confluence", "Confluence", "atlassian"},
                                   LAMBDA i : InLowerContent(content, i))))

DetectGenericDocs(url, soup, content) ==
    LET versions == {t \in soup.nav_texts : MatchesNavText(t)}
    IN  Detection("generic_docs",
                  IF versions # {} THEN versions ELSE {"latest"},
                  [title |-> TitleOr(soup, "Documentation")],
                  Min(AddHits(0, 100,
                              Hits({"documentation", "docs", "api", "reference", "guide"},
                                   LAMBDA i : InUrl(url, i) \/ InLowerContent(content, i))),
                      GenericDocsCap))

\* The list detectors of detect_document_type, each applied to the page.
Detectors(url, soup, content) ==
    <<DetectSwaggerUi(url, soup, content), DetectRedoc(url, soup, content),
      DetectPostman(url, soup, content), DetectGithubWiki(url, soup, content),
      DetectGitbook(url, soup, content), DetectNotion(url, soup, content),
      DetectConfluence(url, soup, content), DetectGenericDocs(url, soup, content)>>

\* The last result of the largest confidence.
BestResult_Last(results) ==
    results[CHOOSE k \in 1..Len(results) :
               /\ \A j \in 1..Len(results) : results[j].confidence <= results[k].confidence
               /\ \A j \in (k + 1)..Len(results) : results[j].confidence < results[k].confidence]

\* max(results, key=confidence): the first result of the largest confidence.
BestResult(results) ==
    results[CHOOSE k \in 1..Len(results) :
               /\ \A j \in 1..Len(results) : results[j].confidence <= results[k].confidence
               /\ \A j \in 1..(k - 1) : results[j].confidence < results[k].confidence]

\* The same with a confidence of exactly the threshold accepted early.
DetectHtmlFrom_AtThreshold(all, soup) ==
    IF \E k \in 1..Len(all) : all[k].confidence >= HighConfidence
    THEN all[CHOOSE k \in 1..Len(all) :
                /\ all[k].confidence >= HighConfidence
                /\ \A j \in 1..(k - 1) : all[j].confidence < HighConfidence]
    ELSE IF \E k \in 1..Len(all) : all[k].confidence > 0
    THEN BestResult(SelectSeq(all, LAMBDA r : r.confidence > 0))
    ELSE Detection("generic_html", {}, [title |-> TitleOr(soup, "Unknown")],
                   GenericHtmlConfidence)

\* Lines 50-89 on the results of the detectors: the first one above the
\* threshold, else the best of those above 0, else generic_html.
DetectHtmlFrom(all, soup) ==
    IF \E k \in 1..Len(all) : all[k].confidence > HighConfidence
    THEN all[CHOOSE k \in 1..Len(all) :
                /\ all[k].confidence > HighConfidence
                /\ \A j \in 1..(k - 1) : all[j].confidence <= HighConfidence]
    ELSE IF \E k \in 1..Len(all) : all[k].confidence > 0
    THEN BestResult(SelectSeq(all, LAMBDA r : r.confidence > 0))
    ELSE Detection("generic_html", {}, [title |-> TitleOr(soup, "Unknown")],
                   GenericHtmlConfidence)

DetectHtml(url, soup, content) == DetectHtmlFrom(Detectors(url, soup, content), soup)

\* What json.loads makes of a body: shape is "invalid" when the body is not
\* JSON, else the kind of the value. An object carries its top-level keys and
\* the kinds of the values of info, paths and item; a list or a string
\* carries the elements / substrings the in operator finds.
JsonData(shape, keys, info, paths, item) ==
    [shape |-> shape, keys |-> keys, info |-> info, paths |-> paths, item |-> item]

NotJson == JsonData("invalid", {}, "absent", "absent", "absent")

InfoDict == [version |-> "2.1.0", title |-> "Pet API"]

\* info: "absent", "dict", "empty" (a dict without keys), "null", "str";
\* paths: "absent", "dict" (two paths) or "null"; item: "absent", "list"
\* (one item) or "null".
JsonValues ==
    {NotJson,
     JsonData("null", {}, "absent", "absent", "absent"),
     JsonData("number", {}, "absent", "absent", "absent"),
     JsonData("list", {}, "absent", "absent", "absent"),
     JsonData("list", {"openapi"}, "absent", "absent", "absent"),
     JsonData("string", {}, "absent", "absent", "absent"),
     JsonData("string", {"openapi"}, "absent", "absent", "absent"),
     JsonData("object", {}, "absent", "absent", "absent"),
     JsonData("object", {"openapi"}, "absent", "absent", "absent"),
     JsonData("object", {"openapi", "info", "paths"}, "dict", "dict", "absent"),
     JsonData("object", {"swagger", "info"}, "empty", "absent", "absent"),
     JsonData("object", {"openapi", "info"}, "null", "absent", "absent"),
     JsonData("object", {"openapi", "info"}, "str", "absent", "absent"),
     JsonData("object", {"openapi", "info", "paths"}, "dict", "null", "absent"),
     JsonData("object", {"info", "item"}, "dict", "absent", "list"),
     JsonData("object", {"info", "item"}, "null", "absent", "list"),
     JsonData("object", {"info", "item"}, "dict", "absent", "null"),
     JsonData("object", {"info"}, "dict", "absent", "absent")}

Returned(result) == [raised |-> None, result |-> result]
Raised(exception) == [raised |-> exception, result |-> UnknownResult(EmptyMetadata)]

\* name in data, for name one of the keys _detect_json_api tests.
JsonIn(data, name) ==
    IF data.shape \in {"object", "list", "string"} THEN name \in data.keys
    ELSE FALSE

\* data.get('info', {}).get(key, default)
InfoGet(data, key, default) ==
    IF data.info = "dict" /\ key \in DOMAIN InfoDict THEN InfoDict[key] ELSE default

\* _detect_json_api on the parsed body.
DetectJsonApi(data) ==
    IF data.shape = "invalid" THEN Returned(UnknownResult(EmptyMetadata))
    ELSE IF data.shape \in {"null", "number"} THEN Raised("TypeError")
    ELSE IF JsonIn(data, "openapi") \/ JsonIn(data, "swagger")
    THEN IF data.shape # "object" \/ data.info \in {"null", "str"}
         THEN Raised("AttributeError")
         ELSE IF data.paths = "null" THEN Raised("TypeError")
         ELSE Returned(Detection("openapi_spec",
                  {InfoGet(data, "version", "1.0.0")},
                  [title |-> InfoGet(data, "title", "API Documentation"),
                   version |-> InfoGet(data, "version", "1.0.0"),
                   paths_count |-> IF data.paths = "dict" THEN 2 ELSE 0],
                  JsonConfidence))
    ELSE IF JsonIn(data, "info") /\ JsonIn(data, "item")
    THEN IF data.shape # "object" \/ data.info \in {"null", "str"}
         THEN Raised("AttributeError")
         ELSE IF data.item = "null" THEN Raised("TypeError")
         ELSE Returned(Detection("postman_collection",
                  {InfoGet(data, "version", "1.0.0")},
                  [title |-> InfoGet(data, "name", "Postman Collection"),
                   items_count |-> IF data.item = "list" THEN 1 ELSE 0],
                  PostmanCollectionConfidence))
    ELSE Returned(UnknownResult(EmptyMetadata))

\* The response to the GET: fetch is "ok", or what made client.get or
\* raise_for_status raise.
Response(fetch, content_type, data, content, soup) ==
    [fetch |-> fetch, content_type |-> content_type, data |-> data,
     content |-> content, soup |-> soup]

FetchFailed(error) == Response(error, "", NotJson, {}, BareSoup)

ContentTypes == {"application/json", "Application/JSON; charset=utf-8", "text/html"}

\* 'application/json' in content_type.lower()
IsJsonContentType(content_type) ==
    content_type \in {"application/json", "Application/JSON; charset=utf-8"}

\* The text of a JSON body, as the page detectors see it.
JsonContent(data) == IF "openapi" \in data.keys THEN {"\"openapi\""} ELSE {}

DetectResponses ==
    {FetchFailed("ConnectError"), FetchFailed("HTTPStatusError")} \cup
    {Response("ok", ct, NotJson, content, soup) :
        ct \in ContentTypes, content \in SUBSET ContentAtoms, soup \in Soups} \cup
    {Response("ok", ct, data, JsonContent(data), BareSoup) :
        ct \in ContentTypes, data \in JsonValues \ {NotJson}}

\* The except clause of lines 91-98.
DetectError(exception) == UnknownResult([error |-> exception])

\* What the call of _detect_json_api at line 48 comes to.
DetectJsonOutcome(r) ==
    IF r.raised # None THEN DetectError(r.raised) ELSE r.result

DetectDocumentType(url, response) ==
    IF response.fetch # "ok" THEN DetectError(response.fetch)
    ELSE IF IsJsonContentType(response.content_type)
    THEN DetectJsonOutcome(DetectJsonApi(response.data))
    ELSE DetectHtml(url, response.soup, response.content)

\* ---------------------------------------------------------------- state

VARIABLES
    chunk_size,      \* DocumentProcessor.chunk_size
    chunk_overlap,   \* DocumentProcessor.chunk_overlap
    document,        \* the raw content of the document handed to chunk_document
    ck_pc,           \* where chunk_document stands
    ck_content,      \* chunk_document's cleaned content
    ck_start,        \* _split_text's start
    ck_chunks,       \* _split_text's chunks (the chunk texts)
    ck_ranges,       \* the window [start, end) of every pass of the loop
    ck_out           \* the DocumentChunk list chunk_document returns

ckvars == <<chunk_size, chunk_overlap, document, ck_pc, ck_content, ck_start,
            ck_chunks, ck_ranges, ck_out>>

VARIABLES
    vd_pc,           \* where detect_versions stands
    vd_page,         \* the response to the GET of self.url
    vd_versions,     \* _detect_versions_from_ui's versions / the list returned
    vd_i,            \* the index in common_paths of the next probe
    vd_requests      \* the URLs requested so far, in order

vdvars == <<vd_pc, vd_page, vd_versions, vd_i, vd_requests>>

VARIABLES
    ex_pc,           \* where extract_documents_for_version stands
    ex_version,      \* its argument version_info
    ex_resp,         \* the response to the GET of version_info.url
    ex_docs          \* the list it returns

exvars == <<ex_pc, ex_version, ex_resp, ex_docs>>

VARIABLES
    ig_pc,               \* where ingest_documentation stands
    ig_runs,             \* calls of ingest_documentation started so far
    ig_call,             \* its arguments connector_type, version, force_reingestion
    detected_type,       \* analysis['detected_type']
    connector,           \* the connector class instantiated for the URL
    source_versions,     \* source_info.versions
    versions_to_process, \* the versions left after the filter
    ig_i,                \* index in versions_to_process of the next version
    all_documents,       \* the documents extracted so far
    version_stats,       \* label -> {documents_count, status, error?}
    outcomes,            \* what each extract_documents_for_version call did, in order
    ig_result,           \* the dict returned
    collection,          \* the chatbot's collection: id -> number of entries
    collection_before,   \* the collection when the call started
    sink_ops,            \* the mutating calls made on the vector service in this call
    add_outcome,         \* what add_documents did in this call, "none" if not called
    ig_clients           \* the HTTP client of every connector instance created in this call

igvars == <<ig_pc, ig_runs, ig_call, detected_type, connector, source_versions,
            versions_to_process, ig_i, all_documents, version_stats, outcomes,
            ig_result, collection, collection_before, sink_ops, add_outcome,
            ig_clients>>

VARIABLES
    dt_pc,           \* where detect_document_type stands
    dt_url,          \* its argument url
    dt_response,     \* what the GET of url gave
    dt_result        \* the dict it returns

dtvars == <<dt_pc, dt_url, dt_response, dt_result>>

VARIABLES
    registry,        \* ConnectorRegistry: _connectors and _type_mappings
    rg_count,        \* registrations made so far
    rg_lookup        \* the last get_connector_for_type call and what it returned

rgvars == <<registry, rg_count, rg_lookup>>

VARIABLES
    an_pc,               \* where analyze_documentation_source stands
    an_result,           \* the dict it returns
    an_registry_before   \* the connector registry when the call started

anvars == <<an_pc, an_result, an_registry_before>>

vars == <<ckvars, vdvars, exvars, igvars, dtvars, rgvars, anvars>>

\* The components a specification leaves alone.
ChunkIdle ==
    /\ chunk_size = 2
    /\ chunk_overlap = 1
    /\ document = <<>>
    /\ ck_pc = "idle"
    /\ ck_content = <<>>
    /\ ck_start = 0
    /\ ck_chunks = <<>>
    /\ ck_ranges = <<>>
    /\ ck_out = <<>>

VersionsIdle ==
    /\ vd_pc = "idle"
    /\ vd_page = ErrorPage
    /\ vd_versions = <<>>
    /\ vd_i = 1
    /\ vd_requests = <<>>

ExtractIdle ==
    /\ ex_pc = "idle"
    /\ ex_version = VersionInfo("latest", SourceUrl, TRUE, "")
    /\ ex_resp = [kind |-> "error", spec |-> NoSpec]
    /\ ex_docs = <<>>

NoCall == [connector_type |-> None, version |-> None, force_reingestion |-> FALSE]
NoVersionStats == [l \in {} |-> 0]

IngestIdle ==
    /\ ig_pc = "idle"
    /\ ig_runs = 0
    /\ ig_call = NoCall
    /\ detected_type = ""
    /\ connector = NoConnector
    /\ source_versions = <<>>
    /\ versions_to_process = <<>>
    /\ ig_i = 1
    /\ all_documents = <<>>
    /\ version_stats = NoVersionStats
    /\ outcomes = <<>>
    /\ ig_result = NoResult
    /\ collection = EmptyCollection
    /\ collection_before = EmptyCollection
    /\ sink_ops = <<>>
    /\ add_outcome = "none"
    /\ ig_clients = <<>>

DetectIdle ==
    /\ dt_pc = "idle"
    /\ dt_url = ""
    /\ dt_response = FetchFailed("none")
    /\ dt_result = UnknownResult(EmptyMetadata)

NoLookup == [doc_type |-> None, connector |-> NoConnector]

RegistryIdle ==
    /\ registry = EmptyRegistry
    /\ rg_count = 0
    /\ rg_lookup = NoLookup

NoAnalysis == [status |-> None, detected_type |-> None, connector |-> NoConnector,
               versions |-> <<>>]

AnalyzeIdle ==
    /\ an_pc = "idle"
    /\ an_result = NoAnalysis
    /\ an_registry_before = EmptyRegistry

\* --------------------------------------------------------- chunker actions

ChunkInit ==
    /\ chunk_size \in 2..MaxChunkSize
    /\ chunk_overlap \in 1..(chunk_size - 1)
    /\ document \in Texts(MaxLen)
    /\ ck_pc = "ready"
    /\ ck_content = <<>>
    /\ ck_start = 0
    /\ ck_chunks = <<>>
    /\ ck_ranges = <<>>
    /\ ck_out = <<>>
    /\ VersionsIdle
    /\ ExtractIdle
    /\ IngestIdle
    /\ DetectIdle
    /\ RegistryIdle
    /\ AnalyzeIdle

\* chunk_document up to the loop of _split_text: clean, then the short path
\* (`return [text]`) or the first loop test.
ChunkDocument ==
    /\ ck_pc = "ready"
    /\ ck_content' = CleanContent(document)
    /\ ck_start' = 0
    /\ IF Len(ck_content') <= chunk_size
       THEN /\ ck_chunks' = <<ck_content'>>
            /\ ck_ranges' = <<<<0, Len(ck_content')>>>>
            /\ ck_pc' = "split_done"
       ELSE /\ ck_chunks' = <<>>
            /\ ck_ranges' = <<>>
            /\ ck_pc' = "loop"
    /\ UNCHANGED <<chunk_size, chunk_overlap, document, ck_out>>
    /\ UNCHANGED <<vdvars, exvars, igvars, dtvars, rgvars, anvars>>

\* One test of `while start < len(text)` and, when it holds, one pass of the body.
SplitIterate ==
    /\ ck_pc = "loop"
    /\ LET r == IF ck_start < Len(ck_content)
                THEN SplitIter(ck_content, ck_start, ck_chunks, ck_ranges,
                               chunk_size, chunk_overlap)
                ELSE [pc |-> "return", start |-> ck_start, chunks |-> ck_chunks,
                      ranges |-> ck_ranges]
       IN /\ ck_start' = r.start
          /\ ck_chunks' = r.chunks
          /\ ck_ranges' = r.ranges
          /\ ck_pc' = CASE r.pc = "return" -> "split_done"
                        [] r.pc = "raise" -> "raised"
                        [] OTHER -> "loop"
    /\ UNCHANGED <<chunk_size, chunk_overlap, document, ck_content, ck_out>>
    /\ UNCHANGED <<vdvars, exvars, igvars, dtvars, rgvars, anvars>>

\* The enumerate loop of chunk_document over the chunk texts, and its return.
BuildChunks ==
    /\ ck_pc = "split_done"
    /\ ck_out' = BuildChunkList("doc", ck_content, ck_chunks, chunk_size, chunk_overlap)
    /\ ck_pc' = "done"
    /\ UNCHANGED <<chunk_size, chunk_overlap, document, ck_content, ck_start,
                   ck_chunks, ck_ranges>>
    /\ UNCHANGED <<vdvars, exvars, igvars, dtvars, rgvars, anvars>>

ChunkNext == ChunkDocument \/ SplitIterate \/ BuildChunks

SpecChunk == ChunkInit /\ [][ChunkNext]_vars

\* chunk_document runs on: a call that can take a step takes it.
SpecChunkFair == ChunkInit /\ [][ChunkNext]_vars /\ WF_vars(ChunkNext)

\* ------------------------------------------------ detect_versions actions

VersionsInit ==
    /\ vd_pc = "start"
    /\ vd_page = ErrorPage
    /\ vd_versions = <<>>
    /\ vd_i = 1
    /\ vd_requests = <<>>
    /\ ChunkIdle
    /\ ExtractIdle
    /\ IngestIdle
    /\ DetectIdle
    /\ RegistryIdle
    /\ AnalyzeIdle

\* detect_versions from the GET of self.url to its return or, when the two
\* scans of an HTML page found nothing, to the first probe.
DetectVersionsFetch ==
    /\ vd_pc = "start"
    /\ \E page \in PageResponses :
          LET r == DetectVersionsBeforeProbe(page)
          IN /\ vd_page' = page
             /\ vd_versions' = r.versions
             /\ vd_pc' = IF r.done THEN "done" ELSE "probe"
    /\ vd_requests' = Append(vd_requests, SourceUrl)
    /\ UNCHANGED vd_i
    /\ UNCHANGED <<ckvars, exvars, igvars, dtvars, rgvars, anvars>>

\* One pass of the probe loop: the GET of the next conventional path and,
\* after the last path, the fallback and the return.
DetectVersionsProbe ==
    /\ vd_pc = "probe"
    /\ \E resp \in ProbeResponses :
          LET versions == ProbeStep(vd_versions, vd_i, resp)
          IN IF vd_i = Len(common_paths)
             THEN /\ vd_versions' = WithFallback(versions)
                  /\ vd_pc' = "done"
             ELSE /\ vd_versions' = versions
                  /\ vd_pc' = "probe"
    /\ vd_requests' = Append(vd_requests, BaseUrl \o common_paths[vd_i])
    /\ vd_i' = vd_i + 1
    /\ UNCHANGED vd_page
    /\ UNCHANGED <<ckvars, exvars, igvars, dtvars, rgvars, anvars>>

VersionsNext == DetectVersionsFetch \/ DetectVersionsProbe

SpecVersions == VersionsInit /\ [][VersionsNext]_vars

\* --------------------------------- extract_documents_for_version actions

\* Texts the documents of a specification are rendered to.
ExtractTexts == {<<"a">>}
\* Versions handed to extract_documents_for_version.
ExtractVersions ==
    {VersionInfo("v1.0", SourceUrl, TRUE, "version_selector"),
     VersionInfo("1", SourceUrl \o "v1/swagger.json", FALSE, "javascript_config")}

ExtractInit ==
    /\ ex_pc = "start"
    /\ ex_version \in ExtractVersions
    /\ ex_resp = [kind |-> "error", spec |-> NoSpec]
    /\ ex_docs = <<>>
    /\ ChunkIdle
    /\ VersionsIdle
    /\ IngestIdle
    /\ DetectIdle
    /\ RegistryIdle
    /\ AnalyzeIdle

\* extract_documents_for_version, from the GET to the return.
ExtractDocuments ==
    /\ ex_pc = "start"
    /\ \E resp \in ExtractResponses(ExtractTexts) :
          /\ ex_resp' = resp
          /\ ex_docs' = ExtractDocumentsForVersion(resp, ex_version)
    /\ ex_pc' = "done"
    /\ UNCHANGED ex_version
    /\ UNCHANGED <<ckvars, vdvars, igvars, dtvars, rgvars, anvars>>

ExtractNext == ExtractDocuments

SpecExtract == ExtractInit /\ [][ExtractNext]_vars

\* -------------------------------------------- detect_document_type actions

DetectInit ==
    /\ DetectIdle
    /\ ChunkIdle
    /\ VersionsIdle
    /\ ExtractIdle
    /\ IngestIdle
    /\ RegistryIdle
    /\ AnalyzeIdle

\* detect_document_type, from the GET to the return.
DetectCall ==
    /\ dt_pc = "idle"
    /\ \E url \in DetectUrls, response \in DetectResponses :
          /\ dt_url' = url
          /\ dt_response' = response
          /\ dt_result' = DetectDocumentType(url, response)
    /\ dt_pc' = "done"
    /\ UNCHANGED <<ckvars, vdvars, exvars, igvars, rgvars, anvars>>

DetectNext == DetectCall

SpecDetect == DetectInit /\ [][DetectNext]_vars

\* ------------------------------------------------ ConnectorRegistry actions

MaxRegistrations == 3
\* Names connectors are registered under, types they are registered for,
\* and types looked up.
RegistryNames == {"swagger", "generic", ""}
RegistryTypes == {"swagger_ui", "notion", "pdf_manual"}
LookupTypes == RegistryTypes \cup {"openapi_spec", "redoc", "gitbook", "generic_html"}

RegistryInit ==
    /\ RegistryIdle
    /\ ChunkIdle
    /\ VersionsIdle
    /\ ExtractIdle
    /\ IngestIdle
    /\ DetectIdle
    /\ AnalyzeIdle

\* connectors/__init__.py: setup_default_connectors, run once on import.
SetupDefaultConnectors ==
    /\ rg_count = 0
    /\ registry' = RegisterConnector(registry, "swagger", SwaggerSupportedTypes)
    /\ rg_count' = rg_count + 1
    /\ rg_lookup' = NoLookup
    /\ UNCHANGED <<ckvars, vdvars, exvars, igvars, dtvars, anvars>>

\* register_connector(name, connector_class, supported_types).
RegisterConnectorCall ==
    /\ rg_count < MaxRegistrations
    /\ \E name \in RegistryNames, supported_types \in SUBSET RegistryTypes :
          registry' = RegisterConnector(registry, name, supported_types)
    /\ rg_count' = rg_count + 1
    /\ rg_lookup' = NoLookup
    /\ UNCHANGED <<ckvars, vdvars, exvars, igvars, dtvars, anvars>>

\* register(name, SwaggerConnector).
RegisterCall ==
    /\ rg_count < MaxRegistrations
    /\ \E name \in RegistryNames :
          registry' = Register(registry, name, SwaggerSupportedTypes)
    /\ rg_count' = rg_count + 1
    /\ rg_lookup' = NoLookup
    /\ UNCHANGED <<ckvars, vdvars, exvars, igvars, dtvars, anvars>>

\* get_connector_for_type(doc_type).
LookupConnectorForType ==
    /\ \E doc_type \in LookupTypes :
          rg_lookup' = [doc_type |-> doc_type,
                        connector |-> GetConnectorForType(registry, doc_type)]
    /\ UNCHANGED <<registry, rg_count>>
    /\ UNCHANGED <<ckvars, vdvars, exvars, igvars, dtvars, anvars>>

RegistryNext ==
    \/ SetupDefaultConnectors
    \/ RegisterConnectorCall
    \/ RegisterCall
    \/ LookupConnectorForType

SpecRegistry == RegistryInit /\ [][RegistryNext]_vars

\* ------------------------------------------- ingest_documentation actions

\* BaseConnector.__init__ (base.py lines 36-46): a new instance with its own
\* httpx.AsyncClient, open.
NewConnector(clients) == Append(clients, "open")

\* Leaving `async with` without closing the client.
AExit_Leak(clients) == clients

\* Leaving `async with connector_class(url)`: __aexit__ calls close, which
\* closes the client of the instance (base.py lines 94-102).
AExit(clients) == [clients EXCEPT ![Len(clients)] = "closed"]

IngestInit ==
    /\ IngestIdle
    /\ ChunkIdle
    /\ VersionsIdle
    /\ ExtractIdle
    /\ DetectIdle
    /\ RegistryIdle
    /\ AnalyzeIdle

\* A connector class of the deployment (a BaseConnector subclass, base.py
\* lines 48-58): the lists its detect_versions returns and the documents its
\* extract_documents_for_version returns; either call may raise instead.
CustomVersionLists ==
    {<<>>,
     <<VersionInfo("v1.0", SourceUrl, TRUE, "custom")>>,
     <<VersionInfo("v1.0", SourceUrl, TRUE, "custom"),
       VersionInfo("v2.0", SourceUrl, FALSE, "custom")>>}

\* Document ids are the connector's choice (base.py lines 52-54).  The short
\* page of the default version comes with a second document, whose id is the
\* id of the first chunk of the page (processor.py line 31).
CustomDocuments(version_info) ==
    {<<>>}
    \cup {<<Document(DocId(version_info.version, "page"), "html", version_info.url,
                     version_info.version, "", "", "", t)>> :
             t \in IF version_info.is_default THEN {LongText} ELSE IngestTexts}
    \cup (IF version_info.is_default
          THEN {<<Document(DocId(version_info.version, "page"), "html",
                           version_info.url, version_info.version, "", "", "",
                           ShortText),
                  Document(DocId(version_info.version, "page#chunk_0"), "html",
                           version_info.url, version_info.version, "", "", "",
                           ShortText)>>}
          ELSE {})

\* Lines 102-125: the analysis of the source (lines 24-79: the connector
\* mapped to the detected type is looked up, instantiated inside `async with`
\* and asked for the source's versions, which the SwaggerConnector answers
\* without raising), then the choice of the connector class.
IngestStart ==
    /\ ig_pc = "idle"
    /\ ig_runs < MaxRuns
    /\ ig_runs' = ig_runs + 1
    /\ \E ct \in ConnectorTypes, v \in VersionFilters, f \in BOOLEAN :
          ig_call' = [connector_type |-> ct, version |-> v, force_reingestion |-> f]
    /\ \E t \in DetectedTypes : detected_type' = t
    /\ collection_before' = collection
    /\ sink_ops' = <<>>
    /\ add_outcome' = "none"
    /\ source_versions' = <<>>
    /\ versions_to_process' = <<>>
    /\ ig_i' = 1
    /\ all_documents' = <<>>
    /\ version_stats' = NoVersionStats
    /\ outcomes' = <<>>
    /\ LET analysed == GetConnectorForType(ServiceRegistry, detected_type')
           chosen == IF Truthy(ig_call'.connector_type)
                     THEN GetConnectorByName(ServiceRegistry, ig_call'.connector_type)
                     ELSE analysed
       IN IF analysed = NoConnector
          THEN /\ ig_result' = Failed(ErrorOf("unsupported_type", detected_type', <<>>))
               /\ connector' = NoConnector
               /\ ig_pc' = "done"
               /\ ig_clients' = <<>>
          ELSE IF chosen = NoConnector
          THEN /\ ig_result' = Failed(ErrorOf("unknown_connector",
                                              ig_call'.connector_type, <<>>))
               /\ connector' = NoConnector
               /\ ig_pc' = "done"
               /\ ig_clients' = AExit(NewConnector(<<>>))
          ELSE /\ ig_result' = NoResult
               /\ connector' = chosen
               /\ ig_pc' = "discover"
               /\ ig_clients' = AExit(NewConnector(<<>>))
    /\ UNCHANGED collection
    /\ UNCHANGED <<ckvars, vdvars, exvars, dtvars, rgvars, anvars>>

\* Lines 128-142: the connector is instantiated inside `async with`;
\* get_document_source_info (base.py lines 75-84) calls detect_versions; then
\* the version filter. A return or an exception leaves the `async with`.
IngestDiscover ==
    /\ ig_pc = "discover"
    /\ \E r \in [raised : {FALSE},
                 versions : IF connector = "swagger" THEN IngestVersionLists
                            ELSE CustomVersionLists]
             \cup (IF connector = "swagger" THEN {}
                   ELSE {[raised |-> TRUE, versions |-> <<>>]}) :
          IF r.raised
          THEN /\ ig_result' = Failed(ErrorOf("exception", "detect_versions", <<>>))
               /\ ig_pc' = "done"
               /\ UNCHANGED <<source_versions, versions_to_process>>
          ELSE /\ source_versions' = r.versions
               /\ IF Truthy(ig_call.version)
                  THEN LET kept == FilterVersions(r.versions, ig_call.version)
                       IN /\ versions_to_process' = kept
                          /\ IF kept = <<>>
                             THEN /\ ig_result' =
                                        Failed(ErrorOf("version_not_found", ig_call.version,
                                                       Labels(r.versions)))
                                  /\ ig_pc' = "done"
                             ELSE /\ ig_pc' = "extract"
                                  /\ UNCHANGED ig_result
                  ELSE /\ versions_to_process' = r.versions
                       /\ ig_pc' = "extract"
                       /\ UNCHANGED ig_result
    /\ ig_clients' = IF ig_pc' = "done" THEN AExit(NewConnector(ig_clients))
                                        ELSE NewConnector(ig_clients)
    /\ UNCHANGED <<ig_runs, ig_call, detected_type, connector, ig_i, all_documents,
                   version_stats, outcomes, collection, collection_before, sink_ops,
                   add_outcome>>
    /\ UNCHANGED <<ckvars, vdvars, exvars, dtvars, rgvars, anvars>>

StatsWith(stats, label, entry) ==
    [l \in (DOMAIN stats) \cup {label} |-> IF l = label THEN entry ELSE stats[l]]

\* Lines 148-174: one pass of the loop over versions_to_process.
IngestExtract ==
    /\ ig_pc = "extract"
    /\ ig_i <= Len(versions_to_process)
    /\ LET version_info == versions_to_process[ig_i]
           returns ==
               IF connector = "swagger"
               THEN {[raised |-> FALSE, kind |-> resp.kind,
                      documents |-> ExtractDocumentsForVersion(resp, version_info)] :
                         resp \in IngestResponses}
               ELSE {[raised |-> FALSE, kind |-> "returned", documents |-> ds] :
                         ds \in CustomDocuments(version_info)}
                    \cup {[raised |-> TRUE, kind |-> "raised", documents |-> <<>>]}
       IN \E r \in returns :
             /\ outcomes' = Append(outcomes,
                                [version |-> version_info.version, raised |-> r.raised,
                                 kind |-> r.kind, count |-> Len(r.documents)])
             /\ IF r.raised
                THEN /\ version_stats' =
                           StatsWith(version_stats, version_info.version,
                                     [documents_count |-> 0, status |-> "error",
                                      has_error |-> TRUE])
                     /\ UNCHANGED all_documents
                ELSE /\ all_documents' =
                           all_documents \o TagDocuments(r.documents, version_info,
                                                         Len(source_versions))
                     /\ version_stats' =
                           StatsWith(version_stats, version_info.version,
                                     [documents_count |-> Len(r.documents),
                                      status |-> "success", has_error |-> FALSE])
    /\ ig_i' = ig_i + 1
    /\ UNCHANGED <<ig_pc, ig_runs, ig_call, detected_type, connector, source_versions,
                   versions_to_process, ig_result, collection, collection_before,
                   sink_ops, add_outcome, ig_clients>>
    /\ UNCHANGED <<ckvars, vdvars, exvars, dtvars, rgvars, anvars>>

\* Lines 176-216 after the loop: nothing extracted, or _store_documents and
\* the result; an exception of _store_documents reaches the outer except.
\* Either way the `async with` of line 128 is left.
IngestStore ==
    /\ ig_pc = "extract"
    /\ ig_i > Len(versions_to_process)
    /\ IF all_documents = <<>>
       THEN /\ ig_result' = NoDocumentsResult(version_stats)
            /\ UNCHANGED <<collection, sink_ops, add_outcome>>
       ELSE \E env \in {"ok", "false", "raise"} :
               \E r \in {StoreDocuments(collection, all_documents,
                                         ig_call.force_reingestion, env)} :
                  /\ collection' = r.collection
                  /\ sink_ops' = r.ops
                  /\ add_outcome' = r.add_ret
                  /\ ig_result' =
                        IF r.raised
                        THEN Failed(ErrorOf("exception", "process_documents", <<>>))
                        ELSE [status |-> "success", error |-> NoError,
                              has_version_stats |-> TRUE,
                              version_stats |-> version_stats,
                              total_documents |-> Len(all_documents),
                              ingestion_stats |-> r.stats]
    /\ ig_pc' = "done"
    /\ ig_clients' = AExit(ig_clients)
    /\ UNCHANGED <<ig_runs, ig_call, detected_type, connector, source_versions,
                   versions_to_process, ig_i, all_documents, version_stats, outcomes,
                   collection_before>>
    /\ UNCHANGED <<ckvars, vdvars, exvars, dtvars, rgvars, anvars>>

\* The call returns: the caller has the result, the locals of the call are
\* gone, and the service is ready for the next call.
IngestReturn ==
    /\ ig_pc = "done"
    /\ ig_pc' = "idle"
    /\ ig_call' = NoCall
    /\ detected_type' = ""
    /\ connector' = NoConnector
    /\ source_versions' = <<>>
    /\ versions_to_process' = <<>>
    /\ ig_i' = 1
    /\ all_documents' = <<>>
    /\ version_stats' = NoVersionStats
    /\ outcomes' = <<>>
    /\ ig_result' = NoResult
    /\ collection_before' = collection
    /\ sink_ops' = <<>>
    /\ add_outcome' = "none"
    /\ ig_clients' = <<>>
    /\ UNCHANGED <<ig_runs, collection>>
    /\ UNCHANGED <<ckvars, vdvars, exvars, dtvars, rgvars, anvars>>

IngestNext == IngestStart \/ IngestDiscover \/ IngestExtract \/ IngestStore \/ IngestReturn

SpecIngest == IngestInit /\ [][IngestNext]_vars

\* ------------------------------------------- analyze_documentation_source

\* The types detect_document_type reports.
DetectionTypes ==
    {"unknown", "openapi_spec", "postman_collection", "swagger_ui", "redoc",
     "postman_docs", "github_wiki", "gitbook", "notion", "confluence", "generic_docs",
     "generic_html"}

\* What get_document_source_info of the connector gives: the versions of
\* detect_versions, or an exception (raised) of a connector class whose
\* detect_versions raises.
SourceInfos(connector_class) ==
    [raised : {FALSE},
     versions : IF connector_class = "swagger" THEN IngestVersionLists
                ELSE CustomVersionLists]
    \cup (IF connector_class = "swagger" THEN {}
          ELSE {[raised |-> TRUE, versions |-> <<>>]})

Analysis(status, doc_type, connector_class, versions) ==
    [status |-> status, detected_type |-> doc_type, connector |-> connector_class,
     versions |-> versions]

\* What a call leaves behind besides its result: the registry after it and
\* the operations it made on the vector service.
Effects(result, reg, ops) == [result |-> result, registry |-> reg, sink_ops |-> ops]

\* analyze_documentation_source registering a connector for the detected type.
AnalyzeDocumentationSource_Registering(reg, doc_type, info) ==
    Effects(Analysis("supported", doc_type, "generic", info.versions),
            RegisterConnector(reg, "generic", {doc_type}), <<>>)

\* analyze_documentation_source (lines 24-79), given the type the detector
\* reports and what the connector answers; the registry is read with
\* get_connector_for_type and the vector service is not used.
AnalyzeDocumentationSource(reg, doc_type, info) ==
    Effects(IF GetConnectorForType(reg, doc_type) = NoConnector
            THEN Analysis("unsupported", doc_type, NoConnector, <<>>)
            ELSE IF info.raised
            THEN Analysis("error", None, NoConnector, <<>>)
            ELSE Analysis("supported", doc_type,
                          GetConnectorForType(reg, doc_type), info.versions),
            reg, <<>>)

\* ------------------------------------ analyze_documentation_source actions

AnalyzeInit ==
    /\ AnalyzeIdle
    /\ ChunkIdle
    /\ VersionsIdle
    /\ ExtractIdle
    /\ IngestIdle
    /\ DetectIdle
    /\ RegistryIdle

\* A registration between two calls of analyze_documentation_source.
AnalyzeRegister ==
    /\ an_pc = "idle"
    /\ \/ SetupDefaultConnectors
       \/ RegisterConnectorCall
       \/ RegisterCall

\* analyze_documentation_source, from the detection to the return.
AnalyzeSource ==
    /\ an_pc = "idle"
    /\ \E doc_type \in DetectionTypes :
          \E info \in SourceInfos(GetConnectorForType(registry, doc_type)) :
             \E r \in {AnalyzeDocumentationSource(registry, doc_type, info)} :
                /\ an_result' = r.result
                /\ registry' = r.registry
                /\ sink_ops' = sink_ops \o r.sink_ops
    /\ an_registry_before' = registry
    /\ an_pc' = "done"
    /\ UNCHANGED <<rg_count, rg_lookup>>
    /\ UNCHANGED <<ig_pc, ig_runs, ig_call, detected_type, connector, source_versions,
                   versions_to_process, ig_i, all_documents, version_stats, outcomes,
                   ig_result, collection, collection_before, add_outcome, ig_clients>>
    /\ UNCHANGED <<ckvars, vdvars, exvars, dtvars>>

\* The call returns.
AnalyzeReturn ==
    /\ an_pc = "done"
    /\ an_pc' = "idle"
    /\ an_result' = NoAnalysis
    /\ an_registry_before' = EmptyRegistry
    /\ UNCHANGED <<ckvars, vdvars, exvars, igvars, dtvars, rgvars>>

AnalyzeNext == AnalyzeRegister \/ AnalyzeSource \/ AnalyzeReturn

SpecAnalyze == AnalyzeInit /\ [][AnalyzeNext]_vars

\* ---------------------------------------------------------- chunker claims

\* The windows cover [0, n) with no gap between one window and the next.
CoversWithoutGap(ranges, n) ==
    /\ ranges # <<>>
    /\ ranges[1][1] = 0
    /\ ranges[Len(ranges)][2] = n
    /\ \A k \in 1..(Len(ranges) - 1) : ranges[k + 1][1] <= ranges[k][2]

\* Every two adjacent windows share between 0 and overlap characters.
AdjacentOverlapBounded(ranges, overlap) ==
    \A k \in 1..(Len(ranges) - 1) :
        ranges[k][2] - ranges[k + 1][1] \in 0..overlap

\* C2: for a text whose cleaned form is longer than chunk_size (and
\* 0 < chunk_overlap < chunk_size), chunking produces chunks: it does not
\* raise, and the windows of the chunks it returns cover [0, len(cleaned))
\* without gap, adjacent ones overlapping by 0..chunk_overlap characters.
C2_LongTextCovered ==
    Len(ck_content) > chunk_size =>
        /\ ck_pc # "raised"
        /\ ck_pc = "done" =>
              /\ CoversWithoutGap(ck_ranges, Len(ck_content))
              /\ AdjacentOverlapBounded(ck_ranges, chunk_overlap)

\* The case of C2: a long cleaned text has gone through _split_text.
C2_Witness ==
    /\ Len(ck_content) > chunk_size
    /\ ck_pc \in {"raised", "done"}

\* C8: for a document whose text is no longer than chunk_size (the empty
\* text included), chunk_document does not raise and returns exactly one
\* chunk, with chunk_index 0 and the cleaned text as its content.
C8_ShortTextOneChunk ==
    Len(document) <= chunk_size =>
        /\ ck_pc \in {"ready", "split_done", "done"}
        /\ ck_pc = "done" =>
              /\ Len(ck_out) = 1
              /\ ck_out[1].chunk_index = 0
              /\ ck_out[1].content = CleanContent(document)

\* The case of C8: a short text that cleaning changed has been chunked.
C8_Witness ==
    /\ ck_pc = "done"
    /\ Len(document) <= chunk_size
    /\ CleanContent(document) # document
    /\ CleanContent(document) # <<>>
    /\ Len(ck_out) = 1

C22_ChunkingReturns == <>(ck_pc = "done")

\* The loop of _split_text has raised on a text longer than chunk_size.
C22_Witness ==
    /\ ck_pc = "raised"
    /\ Len(ck_content) > chunk_size
    /\ ck_out = <<>>

\* -------------------------------------------------- detect_versions claims

\* C7: no list returned by detect_versions holds two versions with the same
\* label, whichever of the selector scan, the script scan and the probe of
\* the conventional paths found them.
C7_NoDuplicateLabels ==
    vd_pc = "done" =>
        \A j, k \in 1..Len(vd_versions) :
            j # k => vd_versions[j].version # vd_versions[k].version

\* detect_versions returned several versions found on an HTML page.
C7_Witness ==
    /\ vd_pc = "done"
    /\ vd_page.kind = "html"
    /\ Len(vd_versions) >= 2

\* The GET of self.url failed, or its body, declared JSON, did not parse or
\* is no object.
SourceFetchOrParseFailed ==
    \/ vd_page.kind = "error"
    \/ vd_page.kind = "json" /\ vd_page.json \in {"not_json", "not_object"}

\* C17: detect_versions never raises; whenever fetching or parsing the
\* source fails internally it returns exactly one version, labelled
\* 'latest', whose url is the connector's URL and whose is_default is true.
C17_FailureGivesLatest ==
    (vd_pc = "done" /\ SourceFetchOrParseFailed) =>
        /\ Len(vd_versions) = 1
        /\ vd_versions[1].version = "latest"
        /\ vd_versions[1].url = SourceUrl
        /\ vd_versions[1].is_default

\* A body that is not JSON, declared JSON, gives the empty list.
C17_Witness ==
    /\ vd_pc = "done"
    /\ vd_page.kind = "json"
    /\ vd_page.json = "not_json"
    /\ vd_versions = <<>>

\* C18: in every list returned by detect_versions that holds more than one
\* version, at most one version has is_default true and it is the first
\* element of the list, whichever strategies contributed versions.
C18_DefaultIsFirstOnly ==
    (vd_pc = "done" /\ Len(vd_versions) > 1) =>
        \A k \in 1..Len(vd_versions) : vd_versions[k].is_default => k = 1

\* Lists of several versions: selector and script scan together, and the
\* probes alone, each with the first version the default.
C18_Witness ==
    /\ vd_pc = "done"
    /\ Len(vd_versions) > 1
    /\ vd_versions[1].is_default
    /\ \/ /\ vd_versions[1].source = "version_selector"
          /\ vd_versions[Len(vd_versions)].source = "javascript_config"
       \/ /\ vd_versions[1].source = "common_paths"
          /\ vd_versions[2].source = "common_paths"

\* C24: for an HTML source the strategies (selector scan, script scan, probe
\* of the conventional paths, fallback version) are tried in that order and
\* discovery stops at the first that yields a version, so every list
\* returned holds versions of a single strategy (one metadata.source).
C24_SingleStrategy ==
    (vd_pc = "done" /\ vd_page.kind = "html") =>
        \A j, k \in 1..Len(vd_versions) : vd_versions[j].source = vd_versions[k].source

\* A page with a selector option and a script URL gave versions of both scans.
C24_Witness ==
    /\ vd_pc = "done"
    /\ vd_page.kind = "html"
    /\ Len(vd_versions) = 2
    /\ vd_versions[1].source = "version_selector"
    /\ vd_versions[2].source = "javascript_config"

\* The probe of the conventional paths was reached and accepted a path.
ProbeAccepted ==
    /\ vd_pc = "done"
    /\ vd_versions # <<>>
    /\ vd_versions[1].source = "common_paths"

\* C25: when discovery reaches the probe of the conventional paths, probing
\* stops at the first path that answers 200 with JSON holding an openapi,
\* swagger or paths key: the result holds exactly one version, for that
\* path, and no later path is requested.
C25_ProbeStopsAtFirst ==
    ProbeAccepted =>
        /\ Len(vd_versions) = 1
        /\ vd_requests[Len(vd_requests)] = vd_versions[1].url

\* Two paths were accepted and all six were requested.
C25_Witness ==
    /\ ProbeAccepted
    /\ Len(vd_versions) = 2
    /\ vd_versions[1].url = BaseUrl \o "/swagger.json"
    /\ Len(vd_requests) = 1 + Len(common_paths)

\* --------------------------------- extract_documents_for_version claims

CountDocs(docs, Test(_)) == Cardinality({k \in 1..Len(docs) : Test(docs[k])})

\* C3: for a JSON specification fetched for a version,
\* extract_documents_for_version returns exactly one info document, one
\* servers document iff 'servers' is non-empty, one security-schemes document
\* iff securitySchemes is non-empty, one document with metadata method
\* (upper-cased) and path per (path, method) whose method is an HTTP method
\* of the list, and one document per schema.
C3_ExactDocuments ==
    (ex_pc = "done" /\ ex_resp.kind = "json") =>
        LET spec == ex_resp.spec
            v == ex_version.version
            IsInfo(dd) == dd.id = DocId(v, "info")
            IsServers(dd) == dd.id = DocId(v, "servers")
            IsSecurity(dd) == dd.id = DocId(v, "security")
            operations == {pm \in PathNames \X MethodKeys :
                              pm[2] \in spec.paths[pm[1]] /\ Upper(pm[2]) \in HttpMethods}
        IN /\ CountDocs(ex_docs, IsInfo) = 1
           /\ CountDocs(ex_docs, IsServers) = (IF spec.servers THEN 1 ELSE 0)
           /\ CountDocs(ex_docs, IsSecurity) = (IF spec.security THEN 1 ELSE 0)
           /\ \A pm \in operations :
                 CountDocs(ex_docs, LAMBDA dd : dd.method = Upper(pm[2]) /\ dd.path = pm[1]) = 1
           /\ \A n \in spec.schemas :
                 CountDocs(ex_docs, LAMBDA dd : dd.schema_name = n) = 1
           /\ Len(ex_docs) = 1 + (IF spec.servers THEN 1 ELSE 0)
                               + (IF spec.security THEN 1 ELSE 0)
                               + Cardinality(operations) + Cardinality(spec.schemas)

\* A specification with GET /users and a servers list was fetched and
\* extract_documents_for_version returned.
C3_Witness ==
    /\ ex_pc = "done"
    /\ ex_resp.kind = "json"
    /\ "get" \in ex_resp.spec.paths["/users"]
    /\ ex_resp.spec.servers

\* ------------------------------------------- ingest_documentation claims

\* The call got to the source's versions: a connector was chosen and its
\* detect_versions returned.
Discovered ==
    /\ ig_pc = "done"
    /\ connector # NoConnector
    /\ ~(ig_result.error.kind = "exception" /\ ig_result.error.name = "detect_versions")

SomeRaised == \E k \in 1..Len(outcomes) : outcomes[k].raised
SomeReturnedDocuments == \E k \in 1..Len(outcomes) : ~outcomes[k].raised /\ outcomes[k].count > 0

RECURSIVE SumCounts(_)
SumCounts(os) == IF os = <<>> THEN 0 ELSE Head(os).count + SumCounts(Tail(os))

\* C1: when extract_documents_for_version raises for some versions and
\* returns documents for at least one other, the result has status
\* 'success', every raising version has status 'error' with documents_count
\* 0 and an error string, every other version has status 'success', and
\* total_documents counts the documents of the versions that did not raise.
C1_PartialFailureIsolated ==
    (ig_pc = "done" /\ SomeRaised /\ SomeReturnedDocuments) =>
        /\ ig_result.status = "success"
        /\ ig_result.has_version_stats
        /\ \A k \in 1..Len(outcomes) :
              LET st == ig_result.version_stats[outcomes[k].version]
              IN IF outcomes[k].raised
                 THEN st.status = "error" /\ st.documents_count = 0 /\ st.has_error
                 ELSE st.status = "success"
        /\ ig_result.total_documents = SumCounts(outcomes)

\* The loop is over; one version raised and another returned documents.
C1_Witness ==
    /\ ig_pc = "done"
    /\ SomeRaised
    /\ SomeReturnedDocuments
    /\ Len(outcomes) = Len(versions_to_process)

\* The ids of the chunks process_documents makes of this call's documents.
RunChunkIds ==
    LET p == ProcessDocuments(all_documents)
    IN {p.chunks[k].id : k \in 1..Len(p.chunks)}

FetchOrParseFailed(o) == o.kind \in {"error", "json_not_object"}

\* C5: with the SwaggerConnector, a version whose fetch or parsing failed
\* has status 'error' and an error string in version_stats, and the versions
\* after it are processed all the same.
C5_SwaggerFailureRecorded ==
    (ig_pc = "done" /\ connector = "swagger" /\ outcomes # <<>>) =>
        /\ Len(outcomes) = Len(versions_to_process)
        /\ \A k \in 1..Len(outcomes) :
              FetchOrParseFailed(outcomes[k]) =>
                  /\ version_stats[outcomes[k].version].status = "error"
                  /\ version_stats[outcomes[k].version].has_error

\* The SwaggerConnector processed two versions, and the fetch or the parsing
\* of the first failed.
C5_Witness ==
    /\ ig_pc = "done"
    /\ connector = "swagger"
    /\ Len(outcomes) = 2
    /\ FetchOrParseFailed(outcomes[1])

\* C6: the ids of the documents extracted in one call, over all versions of
\* the source, are pairwise distinct.
C6_DocumentIdsDistinct ==
    \A j, k \in 1..Len(all_documents) :
        j # k => all_documents[j].id # all_documents[k].id

\* Documents of two versions were extracted in one call.
C6_Witness ==
    /\ ig_pc = "done"
    /\ Len(outcomes) = 2
    /\ outcomes[1].count > 0
    /\ outcomes[2].count > 0

UnknownFilterOutcome ==
    /\ ig_result.status = "failed"
    /\ ig_result.error = ErrorOf("version_not_found", ig_call.version,
                                 Labels(source_versions))
    /\ outcomes = <<>>
    /\ sink_ops = <<>>
    /\ collection = collection_before

NoLabelIs(version) ==
    \A k \in 1..Len(source_versions) : source_versions[k].version # version

\* C10 as stated: a call whose version filter equals none of the labels
\* discovered returns 'failed' with an error listing the labels discovered;
\* no version is extracted and nothing is written to the vector service.
C10_UnknownFilterFails ==
    (Discovered /\ ig_call.version # None /\ NoLabelIs(ig_call.version))
        => UnknownFilterOutcome

\* C10 amended: the same for a version filter that is a non-empty string.
C10_NonEmptyUnknownFilterFails ==
    (Discovered /\ Truthy(ig_call.version) /\ NoLabelIs(ig_call.version))
        => UnknownFilterOutcome

\* A call asked for "v9" of a source whose versions are two others.
C10_Witness ==
    /\ Discovered
    /\ ig_call.version = "v9"
    /\ Len(source_versions) >= 2
    /\ UnknownFilterOutcome

\* The loop over versions_to_process ran to its end.
LoopFinished ==
    /\ Discovered
    /\ ig_result.error.kind # "version_not_found"

SinkUntouched ==
    /\ sink_ops = <<>>
    /\ add_outcome = "none"
    /\ collection = collection_before

\* C11: when the versions selected yield no document at all, the result is
\* 'failed', it carries version_stats with an entry for every version
\* attempted, and the vector service is not called: no clear, even with
\* force_reingestion, and no add.
C11_NoDocumentsFails ==
    (LoopFinished /\ SumCounts(outcomes) = 0) =>
        /\ ig_result.status = "failed"
        /\ ig_result.error.kind = "no_documents"
        /\ ig_result.has_version_stats
        /\ \A k \in 1..Len(outcomes) :
              outcomes[k].version \in DOMAIN ig_result.version_stats
        /\ SinkUntouched

\* Two versions were attempted with force_reingestion on a collection that
\* holds entries, and neither gave a document.
C11_Witness ==
    /\ LoopFinished
    /\ SumCounts(outcomes) = 0
    /\ Len(outcomes) = 2
    /\ ig_call.force_reingestion
    /\ collection_before # EmptyCollection

\* The call got to _store_documents.
StorageReached == ig_pc = "done" /\ all_documents # <<>>

C13_StorageFailureCounted ==
    (ig_pc = "done" /\ add_outcome \in {"false", "raise"}) =>
        /\ ig_result.status = "success"
        /\ ig_result.ingestion_stats.error_count = Len(all_documents)
        /\ ig_result.ingestion_stats.stored_count = 0
        /\ ig_result.ingestion_stats.chunks_stored = 0

\* add_documents raised while the chunks of two documents were stored.
C13_Witness ==
    /\ ig_pc = "done"
    /\ add_outcome = "raise"
    /\ Len(all_documents) = 2

UnknownOverrideOutcome ==
    /\ ig_result.status = "failed"
    /\ ig_result.error = ErrorOf("unknown_connector", ig_call.connector_type, <<>>)
    /\ outcomes = <<>>
    /\ SinkUntouched

NotRegistered(name) == name \notin ServiceRegistry.connectors

\* C14 as stated: a call whose connector_type is not the name of a
\* registered connector fails, whatever type was detected, with an error
\* that names connector_type, without extraction and without storage write.
C14_UnknownOverrideFails ==
    (ig_pc = "done" /\ ig_call.connector_type # None
                    /\ NotRegistered(ig_call.connector_type))
        => UnknownOverrideOutcome

\* C14 amended: the same for a non-empty connector_type and a source whose
\* analysis found a connector for the detected type.
C14_UnknownOverrideFailsAfterAnalysis ==
    (ig_pc = "done" /\ Truthy(ig_call.connector_type)
                    /\ NotRegistered(ig_call.connector_type)
                    /\ GetConnectorForType(ServiceRegistry, detected_type) # NoConnector)
        => UnknownOverrideOutcome

\* A call named the connector 'bogus' for a source detected as openapi_spec.
C14_Witness ==
    /\ ig_pc = "done"
    /\ ig_call.connector_type = "bogus"
    /\ detected_type = "openapi_spec"
    /\ UnknownOverrideOutcome

\* ------------------------------------------------------- detection claims

Detected == dt_pc = "done"

\* C15: for every fetched response whose body is a JSON object with a
\* top-level "openapi" key, detect_document_type returns type 'openapi_spec'
\* with confidence >= 0.9.
C15_OpenapiKeyDetected ==
    (/\ Detected
     /\ dt_response.fetch = "ok"
     /\ dt_response.data.shape = "object"
     /\ "openapi" \in dt_response.data.keys) =>
        /\ dt_result.type = "openapi_spec"
        /\ dt_result.confidence >= 900

\* An OpenAPI object whose info is null, served as JSON, comes back unknown.
C15_Witness ==
    /\ Detected
    /\ dt_response.fetch = "ok"
    /\ IsJsonContentType(dt_response.content_type)
    /\ dt_response.data.shape = "object"
    /\ "openapi" \in dt_response.data.keys
    /\ dt_response.data.info = "null"
    /\ dt_result = DetectError("AttributeError")

\* A fetch failure, or a body that is not valid JSON under a JSON
\* content-type.
FetchOrJsonParseFailed ==
    \/ dt_response.fetch # "ok"
    \/ /\ IsJsonContentType(dt_response.content_type)
       /\ dt_response.data.shape = "invalid"

\* C16: detect_document_type never raises; on every fetch failure and every
\* parse failure (a body that is not valid JSON under a JSON content-type
\* included) it returns type 'unknown' with confidence 0.0 and a metadata
\* entry carrying the error.
C16_FailureCarriesError ==
    (Detected /\ FetchOrJsonParseFailed) =>
        /\ dt_result.type = "unknown"
        /\ dt_result.confidence = 0
        /\ "error" \in DOMAIN dt_result.metadata

\* A body that is not JSON, served as JSON, comes back with empty metadata.
C16_Witness ==
    /\ Detected
    /\ dt_response.fetch = "ok"
    /\ IsJsonContentType(dt_response.content_type)
    /\ dt_response.data.shape = "invalid"
    /\ dt_result = UnknownResult(EmptyMetadata)

\* ------------------------------------------------------- registry claims

LookedUp == rg_lookup.doc_type # None

\* The connector registered under name, none when there is no such connector.
RegisteredUnder(name) == IF name \in registry.connectors THEN name ELSE NoConnector

\* With only 'swagger' registered, by setup_default_connectors, exactly
\* swagger_ui, openapi_spec and redoc resolve.
DefaultsResolve ==
    (LookedUp /\ registry = DefaultRegistry) =>
        rg_lookup.connector =
            IF rg_lookup.doc_type \in {"swagger_ui", "openapi_spec", "redoc"}
            THEN "swagger" ELSE NoConnector

\* C19 as stated: after any sequence of registrations
\* get_connector_for_type(t) returns the connector registered under the name
\* the type map gives for t when t is in that map, otherwise the connector
\* registered under the name the fallback table gives for t, and none when t
\* is in neither table or the named connector is not registered.
C19_LookupResolves ==
    /\ LookedUp =>
          rg_lookup.connector =
              IF rg_lookup.doc_type \in DOMAIN registry.type_mappings
              THEN RegisteredUnder(registry.type_mappings[rg_lookup.doc_type])
              ELSE IF rg_lookup.doc_type \in DOMAIN fallback_mappings
              THEN RegisteredUnder(fallback_mappings[rg_lookup.doc_type])
              ELSE NoConnector
    /\ DefaultsResolve

\* C19 amended: the type map decides only when it gives a non-empty name; a
\* type mapped to the empty name is resolved by the fallback table like a
\* type that is not in the map.
C19_LookupResolvesNonEmptyName ==
    /\ LookedUp =>
          rg_lookup.connector =
              IF /\ rg_lookup.doc_type \in DOMAIN registry.type_mappings
                 /\ registry.type_mappings[rg_lookup.doc_type] # ""
              THEN RegisteredUnder(registry.type_mappings[rg_lookup.doc_type])
              ELSE IF rg_lookup.doc_type \in DOMAIN fallback_mappings
              THEN RegisteredUnder(fallback_mappings[rg_lookup.doc_type])
              ELSE NoConnector
    /\ DefaultsResolve

\* A type mapped to the empty name and resolved by the fallback table, after
\* several registrations.
C19_Witness ==
    /\ LookedUp
    /\ rg_count = MaxRegistrations
    /\ rg_lookup.doc_type = "notion"
    /\ "notion" \in DOMAIN registry.type_mappings
    /\ registry.type_mappings["notion"] = ""
    /\ rg_lookup.connector = "generic"

\* ------------------------------------------------------ failed-run claims

\* C23: if ingest_documentation returns status 'failed', the entries stored
\* for the target are exactly those stored before the call: a failed run
\* deletes nothing, a run with force_reingestion that fails while chunking
\* or storing included.
C23_FailedRunKeepsEntries ==
    (ig_pc = "done" /\ ig_result.status = "failed") => collection = collection_before

\* A forced run failed while chunking, after the collection was cleared.
C23_Witness ==
    /\ ig_pc = "done"
    /\ ig_result.status = "failed"
    /\ ig_call.force_reingestion
    /\ sink_ops = <<"clear">>
    /\ collection_before # EmptyCollection
    /\ collection = EmptyCollection

\* ----------------------------------------------------- connector clients

\* C20: every connector instance created by analyze_documentation_source or
\* ingest_documentation has had its HTTP client closed by the time the
\* operation returns: on success, on every early failure return and when
\* version discovery, extraction, chunking or storing raises.
C20_ClientsClosedOnReturn ==
    ig_pc = "done" => \A k \in 1..Len(ig_clients) : ig_clients[k] = "closed"

\* A call that created two instances (one in the analysis, one for the
\* ingestion) and ended in the outer except while storing, after an
\* extraction had raised.
C20_Witness ==
    /\ ig_pc = "done"
    /\ Len(ig_clients) = 2
    /\ SomeRaised
    /\ ig_result.error.kind = "exception"
    /\ all_documents # <<>>

\* ------------------------------------ analyze_documentation_source claims

\* C21: analyze_documentation_source performs no storage-sink operation (no
\* create, clear or add) and leaves the connector registry unchanged, for
\* every URL and every outcome (supported, unsupported, error).
C21_AnalyzeReadsOnly ==
    an_pc = "done" =>
        /\ sink_ops = <<>>
        /\ collection = EmptyCollection
        /\ registry = an_registry_before

\* An analysis that found the source supported, with a registry of several
\* connectors.
C21_Witness ==
    /\ an_pc = "done"
    /\ an_result.status = "supported"
    /\ Len(an_result.versions) = 2
    /\ Cardinality(registry.connectors) >= 2

\* ----------------------------------------------------- recognizer claims

\* detect_document_type ran the recognizers: the response was fetched and is
\* not declared as JSON.
RecognizersRan ==
    /\ Detected
    /\ dt_response.fetch = "ok"
    /\ ~IsJsonContentType(dt_response.content_type)

\* The confidences of the eight recognizers on the page, in their order.
Scores ==
    [k \in 1..8 |->
        Detectors(dt_url, dt_response.soup, dt_response.content)[k].confidence]

RecognizerTypes ==
    <<"swagger_ui", "redoc", "postman_docs", "github_wiki", "gitbook", "notion",
      "confluence", "generic_docs">>

\* The result is the one of recognizer k.
ResultOf(k) ==
    /\ dt_result.type = RecognizerTypes[k]
    /\ dt_result.confidence = Scores[k]

\* C26: for a response not declared as JSON, if any recognizer's confidence
\* exceeds 0.70 the result is the one of the first such recognizer in the
\* fixed order, even when a later recognizer scores higher; a confidence of
\* exactly 0.70 does not trigger the early accept.
C26_FirstAboveThreshold ==
    (RecognizersRan /\ \E k \in 1..8 : Scores[k] > 700) =>
        \E k \in 1..8 :
            /\ ResultOf(k)
            /\ Scores[k] > 700
            /\ \A j \in 1..(k - 1) : Scores[j] <= 700

\* Swagger-UI scored exactly 0.70 and was passed over for GitHub-wiki.
C26_Witness ==
    /\ RecognizersRan
    /\ Scores[1] = 700
    /\ ResultOf(4)
    /\ Scores[4] > 700

\* C27: for a response not declared as JSON where no recognizer's
\* confidence exceeds 0.70, the result is the recognizer result of the
\* highest confidence among those above 0, the earliest in the fixed order
\* when several tie; when no recognizer is above 0 the result is
\* 'generic_html' with confidence 0.1.
C27_BestOrGenericHtml ==
    (RecognizersRan /\ \A k \in 1..8 : Scores[k] <= 700) =>
        IF \E k \in 1..8 : Scores[k] > 0
        THEN \E k \in 1..8 :
                /\ ResultOf(k)
                /\ \A j \in 1..8 : Scores[j] <= Scores[k]
                /\ \A j \in 1..(k - 1) : Scores[j] < Scores[k]
        ELSE /\ dt_result.type = "generic_html"
             /\ dt_result.confidence = 100

\* Swagger-UI and Confluence tied at the top and Swagger-UI was returned.
C27_Witness ==
    /\ RecognizersRan
    /\ \A k \in 1..8 : Scores[k] <= Scores[1]
    /\ Scores[7] = Scores[1]
    /\ Scores[1] \in 1..700
    /\ ResultOf(1)

\* C28: detect_versions returns at least one version for every source and
\* every response, including a response declared as JSON whose body is not
\* valid JSON.
C28_AlwaysAVersion ==
    vd_pc = "done" => Len(vd_versions) >= 1

\* One request was made, the source answered, and the list returned holds
\* no version at all.
C28_Witness ==
    /\ vd_pc = "done"
    /\ vd_requests = <<SourceUrl>>
    /\ vd_page.kind # "error"
    /\ Len(vd_versions) = 0

\* _store_documents returned its statistics.
StatsReturned ==
    /\ ig_pc = "done"
    /\ sink_ops # <<>>
    /\ sink_ops[Len(sink_ops)] = "add"

\* C29: in every ingestion_stats returned by _store_documents,
\* stored_count + skipped_count + error_count equals total_documents,
\* including when some documents were skipped as already stored and
\* add_documents then fails.
C29_CountsAddUp ==
    StatsReturned =>
        ig_result.ingestion_stats.stored_count
            + ig_result.ingestion_stats.skipped_count
            + ig_result.ingestion_stats.error_count
        = ig_result.ingestion_stats.total_documents

\* A document was skipped as already stored and add_documents failed.
C29_Witness ==
    /\ StatsReturned
    /\ ig_result.ingestion_stats.skipped_count > 0
    /\ add_outcome \in {"false", "raise"}
    /\ ig_result.ingestion_stats.error_count = ig_result.ingestion_stats.total_documents

RECURSIVE SumDocumentsCount(_, _)
\* The sum of documents_count over the entries of labels in stats.
SumDocumentsCount(stats, labels) ==
    IF labels = {} THEN 0
    ELSE LET l == CHOOSE x \in labels : TRUE
         IN stats[l].documents_count + SumDocumentsCount(stats, labels \ {l})

\* C30: in every successful result of ingest_documentation, total_documents
\* equals the sum of documents_count over all entries of version_stats, and
\* version_stats has one entry per version that was processed.
C30_StatsMatchTotal ==
    (ig_pc = "done" /\ ig_result.status = "success") =>
        /\ ig_result.total_documents
              = SumDocumentsCount(ig_result.version_stats,
                                  DOMAIN ig_result.version_stats)
        /\ Cardinality(DOMAIN ig_result.version_stats) = Len(outcomes)

\* Two versions of one label were processed, both gave documents, and the
\* successful result has a single version_stats entry.
C30_Witness ==
    /\ ig_pc = "done"
    /\ ig_result.status = "success"
    /\ Len(outcomes) = 2
    /\ outcomes[1].version = outcomes[2].version
    /\ outcomes[1].count > 0
    /\ outcomes[2].count > 0
    /\ Cardinality(DOMAIN ig_result.version_stats) = 1

====
